---- MODULE Spec2Model ----
(***************************************************************************)
(* Model of the K-pop catalogue harvesting scripts:                        *)
(*   scripts/hybrid_kpop_collector.py  (HybridKpopCollector)               *)
(*   scripts/kpop_spotify_cleaner.py   (KpopSpotifyCleaner)                *)
(* Both scripts work on the same MongoDB collections kpopgroups and        *)
(* kpopalbums.  A collection is a sequence of documents in natural         *)
(* (insertion) order; find_one returns the first matching document in      *)
(* that order, replace_one / update_one keep the document's position.      *)
(*                                                                         *)
(* Specifications:                                                         *)
(*   Spec          the group collection under the two scripts' group upserts*)
(*   SpecUpsert    the collector's group and album upserts                 *)
(*   SpecMerge     get_albums_by_artist_id: filters and merge_albums       *)
(*   SpecValidate  validate_kpop_artist_by_id, one HTTP exchange per step  *)
(*   SpecClean     the cleaner's pass, one clean_albums_for_group per step *)
(*   SpecSimilarity  calculate_name_similarity on pairs of names           *)
(*   SpecLifecycle the group states under the passes of both scripts       *)
(*   SpecCompletion  completion passes of both scripts over one group      *)
(*   SpecToken     the collector's token manager                           *)
(*   SpecRun       main of each script and the phase loops it runs         *)
(*   SpecFetch     the paginated album fetches, one request per step       *)
(*   SpecClassify  the group and release classifiers on one candidate      *)
(*   SpecMark      mark_group_as_invalid on stored groups, one call per step*)
(***************************************************************************)
EXTENDS Integers, Sequences, FiniteSets, TLC

VARIABLES
    groups,        \* kpopgroups collection: sequence of group documents
    albums,        \* kpopalbums collection: sequence of album documents
    now,           \* the wall clock read by datetime.now()
    nextGroupId,   \* next ObjectId kpopgroups hands out
    nextAlbumId,   \* next ObjectId kpopalbums hands out
    last,          \* the last round of a pass (history)
    vpc,           \* validate_kpop_artist_by_id: position ("idle","loop","done")
    retry_count,   \* validate_kpop_artist_by_id: local retry_count
    requests,      \* validate_kpop_artist_by_id: HTTP requests issued (history)
    sleeps,        \* validate_kpop_artist_by_id: time.sleep arguments, in order
    vlog,          \* validate_kpop_artist_by_id: responses received, in order
    vret,          \* validate_kpop_artist_by_id: returned value
    official,      \* get_albums_by_artist_id: page of /artists/{id}/albums
    search,        \* get_albums_by_artist_id: page of /search
    officialValid, \* get_albums_by_artist_id: official_albums
    searchValid,   \* get_albums_by_artist_id: search_albums
    merged,        \* get_albums_by_artist_id: all_albums
    mpc,           \* get_albums_by_artist_id: position
    name1,         \* calculate_name_similarity: first argument
    name2,         \* calculate_name_similarity: second argument
    similarity,    \* calculate_name_similarity: returned value
    spotify_token,          \* self.spotify_token
    spotify_token_expires,  \* self.spotify_token_expires
    token_call,    \* the last call that asked for the token (history)
    run,           \* main and the phase loop it is in: position, units, report
    fetch,         \* search_albums_by_artist_id: position and locals of its loop
    classify       \* a classifier call: its argument and returned value

storeVars == <<groups, albums, now, nextGroupId, nextAlbumId, last>>
valVars == <<vpc, retry_count, requests, sleeps, vlog, vret>>
mergeVars == <<official, search, officialValid, searchValid, merged, mpc>>
simVars == <<name1, name2, similarity>>
tokenVars == <<spotify_token, spotify_token_expires, token_call>>
procVars == <<tokenVars, run, fetch, classify>>
vars == <<groups, albums, now, nextGroupId, nextAlbumId, last, vpc, retry_count, requests, sleeps,
          vlog, vret, official, search, officialValid, searchValid, merged, mpc,
          name1, name2, similarity, procVars>>

(***************************************************************************)
(* Bounds of the model.                                                    *)
(***************************************************************************)
MaxGroups == 2
MaxAlbums == 2
MaxTime == 1
MaxOfficial == 3
MaxSearch == 2

(***************************************************************************)
(* Strings.  A name is a sequence of one-character strings, so that        *)
(* str.lower(), str.strip(), re.escape and regex matching are computed.    *)
(***************************************************************************)
Lower(c) ==
    CASE c = "A" -> "a"
      [] c = "B" -> "b"
      [] c = "C" -> "c"
      [] c = "D" -> "d"
      [] c = "E" -> "e"
      [] c = "F" -> "f"
      [] c = "G" -> "g"
      [] c = "H" -> "h"
      [] c = "I" -> "i"
      [] c = "J" -> "j"
      [] c = "K" -> "k"
      [] c = "L" -> "l"
      [] c = "M" -> "m"
      [] c = "N" -> "n"
      [] c = "O" -> "o"
      [] c = "P" -> "p"
      [] c = "Q" -> "q"
      [] c = "R" -> "r"
      [] c = "S" -> "s"
      [] c = "T" -> "t"
      [] c = "U" -> "u"
      [] c = "V" -> "v"
      [] c = "W" -> "w"
      [] c = "X" -> "x"
      [] c = "Y" -> "y"
      [] c = "Z" -> "z"
      [] OTHER -> c

LowerStr(s) == [i \in 1..Len(s) |-> Lower(s[i])]

RECURSIVE LStrip(_)
LStrip(s) == IF s # <<>> /\ Head(s) = " " THEN LStrip(Tail(s)) ELSE s

RECURSIVE RStrip(_)
RStrip(s) ==
    IF s # <<>> /\ s[Len(s)] = " " THEN RStrip(SubSeq(s, 1, Len(s) - 1)) ELSE s

Strip(s) == RStrip(LStrip(s))

\* needle in haystack (Python's `in` on str)
Contains(haystack, needle) ==
    \E i \in 0..(Len(haystack) - Len(needle)) :
        \A j \in 1..Len(needle) : haystack[i + j] = needle[j]

\* A regex is a sequence of tokens: <<"lit", c>> matches the character c,
\* <<"any">> matches any one character.
Literal(c) == <<"lit", c>>
AnyChar == <<"any">>

\* re.escape(name): every character is matched literally
RegexEscape(name) == [i \in 1..Len(name) |-> Literal(name[i])]

\* f"^{name}$" handed to the regex engine unescaped: "." is a wildcard
RegexRaw(name) ==
    [i \in 1..Len(name) |-> IF name[i] = "." THEN AnyChar ELSE Literal(name[i])]

\* {"$regex": "^pattern$", "$options": "i"} applied to the string s
RegexFullMatchI(pattern, s) ==
    /\ Len(pattern) = Len(s)
    /\ \A i \in 1..Len(s) :
        \/ pattern[i] = AnyChar
        \/ /\ pattern[i][1] = "lit"
           /\ Lower(pattern[i][2]) = Lower(s[i])

(***************************************************************************)
(* Provider data used by the store operations.                             *)
(***************************************************************************)
NoTime == -1

NameAb == <<"A", "b">>
NameLowerAb == <<"a", "b">>
NameADot == <<"A", ".">>
NameAbSpace == <<"A", "b", " ">>

ArtistNames == {NameAb, NameLowerAb, NameADot, NameAbSpace}
SpotifyIds == {"s1", "s2"}

\* artist objects as the provider's search returns them
HarvestedArtists == [id : SpotifyIds, name : ArtistNames]

\* artists credited on a release
ArtistS1 == [id |-> "s1", name |-> NameAb]
ArtistS2 == [id |-> "s2", name |-> <<"C">>]
ArtistS2Similar == [id |-> "s2", name |-> NameLowerAb]

\* release_date is "", "YYYY", "YYYY-MM" or "YYYY-MM-DD": the sequence of its
\* numeric parts; string comparison is the lexicographic one on the parts.
ReleaseX == [id |-> "a1", name |-> <<"A">>, total_tracks |-> 8,
             release_date |-> <<2020>>, album_type |-> "album",
             artists |-> <<ArtistS1>>]
ReleaseLowerX == [id |-> "a2", name |-> <<"a">>, total_tracks |-> 5,
                  release_date |-> <<2021, 5>>, album_type |-> "single",
                  artists |-> <<ArtistS1>>]
ReleaseY == [id |-> "a1", name |-> <<"B">>, total_tracks |-> 3,
             release_date |-> <<>>, album_type |-> "single",
             artists |-> <<ArtistS2>>]

HarvestedReleases == {ReleaseX, ReleaseLowerX, ReleaseY}

(***************************************************************************)
(* The document store.                                                     *)
(***************************************************************************)
\* collection.find_one(filter): of the indexes of the documents that satisfy
\* the filter, the first in natural order; 0 stands for None
FindOne(matching) ==
    IF matching = {} THEN 0
    ELSE CHOOSE i \in matching : \A j \in matching : i <= j

\* external_urls.spotify of an artist, as the pieces str.split cuts it in
SpotifyUrl(id) == <<"https://open.spotify.com", "/artist/", id>>

(***************************************************************************)
(* Group documents.  rateLimited = FALSE, retryAfter = NoTime,             *)
(* lastValidated = NoTime and an empty reason stand for an absent field.   *)
(***************************************************************************)
\* HybridKpopCollector.create_group_document: called by
\* process_artist_complete, not defined in the class; the Group fields of
\* the data model, as KpopSpotifyCleaner builds them
create_group_document(spotify_artist, t) ==
    [_id |-> 0,
     name |-> Strip(spotify_artist.name),
     spotifyId |-> spotify_artist.id,
     socialLinks |-> SpotifyUrl(spotify_artist.id),
     isActive |-> TRUE,
     rateLimited |-> FALSE,
     retryAfter |-> NoTime,
     rateLimitReason |-> <<>>,
     invalidReason |-> <<>>,
     createdAt |-> t,
     updatedAt |-> t,
     lastValidated |-> NoTime]

\* KpopSpotifyCleaner.create_group_document_from_spotify
create_group_document_from_spotify(spotify_artist, t) ==
    [_id |-> 0,
     name |-> Strip(spotify_artist.name),
     spotifyId |-> spotify_artist.id,
     socialLinks |-> SpotifyUrl(spotify_artist.id),
     isActive |-> TRUE,
     rateLimited |-> FALSE,
     retryAfter |-> NoTime,
     rateLimitReason |-> <<>>,
     invalidReason |-> <<>>,
     createdAt |-> t,
     updatedAt |-> t,
     lastValidated |-> t]

\* HybridKpopCollector.save_or_update_group on the collection gs at time t;
\* newId is the ObjectId an insert would be given
save_or_update_group(gs, document, t, newId) ==
    LET matching == {i \in 1..Len(gs) :
                        \/ gs[i].spotifyId = document.spotifyId
                        \/ RegexFullMatchI(RegexEscape(document.name), gs[i].name)}
        existing == FindOne(matching)
    IN  IF existing # 0
        THEN [groups |-> [gs EXCEPT ![existing] =
                             [document EXCEPT !.createdAt = gs[existing].createdAt,
                                              !.updatedAt = t,
                                              !._id = gs[existing]._id]],
              success |-> TRUE, action |-> "updated", id |-> gs[existing]._id]
        ELSE [groups |-> Append(gs, [document EXCEPT !._id = newId]),
              success |-> TRUE, action |-> "created", id |-> newId]

\* KpopSpotifyCleaner.add_discovered_artists_to_database, the loop over
\* discovered_artists; every datetime.now() of the call reads t
RECURSIVE add_discovered_artists_to_database(_, _, _, _)
add_discovered_artists_to_database(gs, discovered_artists, t, newId) ==
    IF discovered_artists = <<>>
    THEN [groups |-> gs, nextId |-> newId, added_count |-> 0]
    ELSE LET artist == Head(discovered_artists)
             matching == {i \in 1..Len(gs) :
                             \/ gs[i].spotifyId = artist.id
                             \/ RegexFullMatchI(RegexRaw(artist.name), gs[i].name)}
             existing == FindOne(matching)
         IN  IF existing # 0
             THEN add_discovered_artists_to_database(
                      gs, Tail(discovered_artists), t, newId)
             ELSE LET group_document ==
                          [create_group_document_from_spotify(artist, t)
                              EXCEPT !._id = newId]
                      rest == add_discovered_artists_to_database(
                                  Append(gs, group_document),
                                  Tail(discovered_artists), t, newId + 1)
                  IN  [rest EXCEPT !.added_count = @ + 1]

(***************************************************************************)
(* Album documents.  discoveryMethod = "" stands for an absent field,      *)
(* releaseDate = <<>> for None / "".  Fields that are stored and never     *)
(* read by an operation (coverImage, spotifyUrl, lastScraped,              *)
(* discoverySource) are left out.                                          *)
(***************************************************************************)
\* datetime.strptime of the three date precisions (collector lines 585-596)
ConvertReleaseDate(release_date_str) ==
    CASE Len(release_date_str) = 3 -> release_date_str
      [] Len(release_date_str) = 2 -> release_date_str \o <<1>>
      [] Len(release_date_str) = 1 -> release_date_str \o <<1, 1>>
      [] OTHER -> <<>>

\* the release kind of track count (collector lines 603-609)
FinalAlbumType(total_tracks) ==
    IF total_tracks >= 8 THEN "album"
    ELSE IF total_tracks >= 4 THEN "ep"
    ELSE "single"

\* HybridKpopCollector.create_album_document
create_album_document(spotify_release, group_data, t) ==
    [_id |-> 0,
     name |-> Strip(spotify_release.name),
     artistId |-> group_data._id,
     artistName |-> group_data.name,
     spotifyId |-> spotify_release.id,
     releaseDate |-> ConvertReleaseDate(spotify_release.release_date),
     totalTracks |-> spotify_release.total_tracks,
     albumType |-> FinalAlbumType(spotify_release.total_tracks),
     discoveryMethod |-> "",
     createdAt |-> t,
     updatedAt |-> t]

\* save_or_update_album that stamps createdAt anew on an update instead of
\* taking over the stored one
save_or_update_album_fresh_createdAt(as, document, t, newId) ==
    LET matching == {i \in 1..Len(as) :
                        \/ as[i].spotifyId = document.spotifyId
                        \/ /\ as[i].artistName = document.artistName
                           /\ RegexFullMatchI(RegexEscape(document.name), as[i].name)}
        existing == FindOne(matching)
    IN  IF existing # 0
        THEN [albums |-> [as EXCEPT ![existing] =
                             [document EXCEPT !.createdAt = t,
                                              !.updatedAt = t,
                                              !._id = as[existing]._id]],
              success |-> TRUE, action |-> "updated", id |-> as[existing]._id]
        ELSE [albums |-> Append(as, [document EXCEPT !._id = newId]),
              success |-> TRUE, action |-> "created", id |-> newId]

\* HybridKpopCollector.save_or_update_album on the collection as at time t
save_or_update_album(as, document, t, newId) ==
    LET matching == {i \in 1..Len(as) :
                        \/ as[i].spotifyId = document.spotifyId
                        \/ /\ as[i].artistName = document.artistName
                           /\ RegexFullMatchI(RegexEscape(document.name), as[i].name)}
        existing == FindOne(matching)
    IN  IF existing # 0
        THEN [albums |-> [as EXCEPT ![existing] =
                             [document EXCEPT !.createdAt = as[existing].createdAt,
                                              !.updatedAt = t,
                                              !._id = as[existing]._id]],
              success |-> TRUE, action |-> "updated", id |-> as[existing]._id]
        ELSE [albums |-> Append(as, [document EXCEPT !._id = newId]),
              success |-> TRUE, action |-> "created", id |-> newId]

(***************************************************************************)
(* Spec: the store under the discovery and upsert operations.              *)
(***************************************************************************)
NoOp == [op |-> "none"]

StoreInit ==
    /\ groups = <<>>
    /\ albums = <<>>
    /\ now = 0
    /\ nextGroupId = 1
    /\ nextAlbumId = 1
    /\ last = NoOp

ValIdle ==
    /\ vpc = "idle"
    /\ retry_count = 0
    /\ requests = 0
    /\ sleeps = <<>>
    /\ vlog = <<>>
    /\ vret = "none"

MergeIdle ==
    /\ official = <<>>
    /\ search = <<>>
    /\ officialValid = <<>>
    /\ searchValid = <<>>
    /\ merged = <<>>
    /\ mpc = "idle"

\* no name comparison has been made
NoSimilarity == [num |-> -1, den |-> 1]

SimIdle ==
    /\ name1 = <<>>
    /\ name2 = <<>>
    /\ similarity = NoSimilarity

\* None or '' in self.spotify_token: no credential
NoToken == 0
\* a key the JSON body of the token endpoint does not carry
NoField == -1
NoCall == [op |-> "none"]

\* the object after __init__ obtained token 1 at time 0, valid for an hour
TokenIdle ==
    /\ spotify_token = 1
    /\ spotify_token_expires = 3600
    /\ token_call = NoCall

\* no option of the menu has been chosen
\* the stats dict of process_artist_complete
Stats(group_action, albums_discovered, albums_created, albums_updated, albums_failed) ==
    [group_action |-> group_action, albums_discovered |-> albums_discovered,
     albums_created |-> albums_created, albums_updated |-> albums_updated,
     albums_failed |-> albums_failed]

\* no process_artist_complete has returned
NoStats == Stats("none", 0, 0, 0, 0)

NoRun ==
    [pc |-> "idle", script |-> "none", choice |-> "0", enumerated |-> <<>>,
     visited |-> <<>>, todo |-> <<>>, failed |-> {}, limited |-> {},
     write_failed |-> {}, rate_limited_count |-> 0, trace |-> <<>>,
     report |-> "pending", emitted |-> FALSE, interrupted |-> FALSE,
     aborted |-> FALSE, abandoned |-> FALSE, started_after_interrupt |-> FALSE,
     client_open |-> TRUE, stats |-> NoStats]
RunIdle == run = NoRun

\* no fetch is under way
NoFetch ==
    [pc |-> "idle", fn |-> "none", offset |-> 0, requests |-> 0,
     parity |-> 0, exit |-> "none", calls |-> 0, collected |-> 0,
     sent |-> 0, response |-> <<>>]
FetchIdle == fetch = NoFetch

\* no classifier has been called
NoClassify == [op |-> "none"]
ClassifyIdle == classify = NoClassify

ProcIdle == TokenIdle /\ RunIdle /\ FetchIdle /\ ClassifyIdle

Init == StoreInit /\ ValIdle /\ MergeIdle /\ SimIdle /\ ProcIdle

\* time passes between two operations
Tick ==
    /\ now < MaxTime
    /\ now' = now + 1
    /\ UNCHANGED <<groups, albums, nextGroupId, nextAlbumId, last>>
    /\ UNCHANGED valVars
    /\ UNCHANGED mergeVars
    /\ UNCHANGED simVars
    /\ UNCHANGED procVars

\* the collector saves the group document built at time t from a harvested
\* artist (process_artist_complete, lines 352-353)
SaveOrUpdateGroupFrom(A) ==
    \E spotify_artist \in A, t \in 0..now :
        LET document == create_group_document(spotify_artist, t)
            r == save_or_update_group(groups, document, now, nextGroupId)
        IN  /\ Len(r.groups) <= MaxGroups
            /\ r.action = "created" => nextGroupId <= MaxGroups
            /\ groups' = r.groups
            /\ nextGroupId' = IF r.action = "created" THEN nextGroupId + 1
                                                     ELSE nextGroupId
            /\ UNCHANGED <<albums, now, nextAlbumId, last>>
            /\ UNCHANGED valVars
            /\ UNCHANGED mergeVars
            /\ UNCHANGED simVars
            /\ UNCHANGED procVars

\* the cleaner adds a list of discovered artists; the list is deduplicated by
\* id by discover_kpop_artists_from_spotify (lines 628-635)
DiscoveredLists ==
    {<<a>> : a \in HarvestedArtists}
        \cup {l \in {<<a, b>> : a \in HarvestedArtists, b \in HarvestedArtists} :
                 l[1].id # l[2].id}

AddDiscoveredArtistsFrom(L) ==
    \E discovered_artists \in L :
        LET r == add_discovered_artists_to_database(
                     groups, discovered_artists, now, nextGroupId)
        IN  /\ Len(r.groups) <= MaxGroups
            /\ groups' = r.groups
            /\ nextGroupId' = r.nextId
            /\ UNCHANGED <<albums, now, nextAlbumId, last>>
            /\ UNCHANGED valVars
            /\ UNCHANGED mergeVars
            /\ UNCHANGED simVars
            /\ UNCHANGED procVars

\* the collector saves the album document built at time t from a harvested
\* release of a stored group (process_existing_group_albums, lines 433-434)
SaveOrUpdateAlbum ==
    \E spotify_release \in HarvestedReleases, g \in 1..Len(groups), t \in 0..now :
        LET document == create_album_document(spotify_release, groups[g], t)
            r == save_or_update_album(albums, document, now, nextAlbumId)
        IN  /\ Len(r.albums) <= MaxAlbums
            /\ albums' = r.albums
            /\ nextAlbumId' = IF r.action = "created" THEN nextAlbumId + 1
                                                     ELSE nextAlbumId
            /\ UNCHANGED <<groups, now, nextGroupId, last>>
            /\ UNCHANGED valVars
            /\ UNCHANGED mergeVars
            /\ UNCHANGED simVars
            /\ UNCHANGED procVars

\* the artists the collector's upsert is exercised with in SpecUpsert
UpsertArtists ==
    {[id |-> "s1", name |-> NameAb], [id |-> "s2", name |-> NameADot],
     [id |-> "s1", name |-> NameADot]}

Next ==
    \/ Tick
    \/ SaveOrUpdateGroupFrom(HarvestedArtists)
    \/ AddDiscoveredArtistsFrom(DiscoveredLists)

Spec == Init /\ [][Next]_vars

NextUpsert ==
    \/ Tick
    \/ SaveOrUpdateGroupFrom(UpsertArtists)
    \/ SaveOrUpdateAlbum

SpecUpsert == Init /\ [][NextUpsert]_vars

(***************************************************************************)
(* C1: after any sequence of group upserts (save_or_update_group,          *)
(* add_discovered_artists_to_database) from a store with at most one       *)
(* record per identity, no two stored groups share a spotifyId and no two  *)
(* share a case-insensitive name.                                          *)
(***************************************************************************)
C1_GroupIdentityUnique ==
    \A i, j \in 1..Len(groups) :
        i # j => /\ groups[i].spotifyId # groups[j].spotifyId
                 /\ LowerStr(groups[i].name) # LowerStr(groups[j].name)

(***************************************************************************)
(* C2: the upsert is idempotent for groups and for albums.  From every     *)
(* reachable store, applying save_or_update_group (save_or_update_album)   *)
(* to a document at time now and again to the same document at a time      *)
(* t2 >= now: the second application reports "updated", writes the record  *)
(* the first one wrote, leaves exactly one record with that _id and the    *)
(* same number of records, keeps the createdAt the first application       *)
(* stored, does not decrease updatedAt and changes no other field of any   *)
(* record.                                                                 *)
(***************************************************************************)
C2_SecondApplication(first, second, t2) ==
    /\ second.action = "updated"
    /\ second.id = first.id
    /\ Len(second.coll) = Len(first.coll)
    /\ Cardinality({i \in 1..Len(second.coll) : second.coll[i]._id = first.id}) = 1
    /\ \A i \in 1..Len(first.coll) :
        IF first.coll[i]._id = first.id
        THEN /\ second.coll[i] = [first.coll[i] EXCEPT !.updatedAt = t2]
             /\ second.coll[i].createdAt = first.coll[i].createdAt
             /\ second.coll[i].updatedAt >= first.coll[i].updatedAt
        ELSE second.coll[i] = first.coll[i]

C2_GroupTwice(document, t2) ==
    LET r1 == save_or_update_group(groups, document, now, nextGroupId)
        r2 == save_or_update_group(r1.groups, document, t2, nextGroupId + 1)
    IN  C2_SecondApplication([coll |-> r1.groups, action |-> r1.action, id |-> r1.id],
                             [coll |-> r2.groups, action |-> r2.action, id |-> r2.id],
                             t2)

C2_AlbumTwice(document, t2) ==
    LET r1 == save_or_update_album(albums, document, now, nextAlbumId)
        r2 == save_or_update_album(r1.albums, document, t2, nextAlbumId + 1)
    IN  C2_SecondApplication([coll |-> r1.albums, action |-> r1.action, id |-> r1.id],
                             [coll |-> r2.albums, action |-> r2.action, id |-> r2.id],
                             t2)

C2_UpsertIdempotent ==
    /\ \A spotify_artist \in HarvestedArtists, t1 \in 0..now, t2 \in now..MaxTime :
        C2_GroupTwice(create_group_document(spotify_artist, t1), t2)
    /\ \A spotify_release \in HarvestedReleases, g \in 1..Len(groups),
          t1 \in 0..now, t2 \in now..MaxTime :
        C2_AlbumTwice(create_album_document(spotify_release, groups[g], t1), t2)

\* both collections hold a record that an upsert updated after the upsert
\* that created it
C2_Witness ==
    /\ \E i \in 1..Len(groups) : groups[i].createdAt < groups[i].updatedAt
    /\ \E k \in 1..Len(albums) : albums[k].createdAt < albums[k].updatedAt

(***************************************************************************)
(* SpecMerge: KpopSpotifyCleaner.get_albums_by_artist_id for one target    *)
(* artist, on one page of each provider endpoint.                          *)
(***************************************************************************)
TargetId == "s1"
TargetName == NameAb

StrNull == <<"n", "u", "l", "l">>
StrParenNull == <<"(", "n", "u", "l", "l", ")">>
StrUndefined == <<"u", "n", "d", "e", "f", "i", "n", "e", "d">>
StrTest == <<"t", "e", "s", "t">>
StrVarious == <<"v", "a", "r", "i", "o", "u", "s">>
StrVariousArtists ==
    <<"v", "a", "r", "i", "o", "u", "s", " ", "a", "r", "t", "i", "s", "t", "s">>
\* "e_acute" is the one character U+00E9
StrHitsAnnees == <<"h", "i", "t", "s", " ", "a", "n", "n", "e_acute", "e", "s">>
StrBestOf == <<"b", "e", "s", "t", " ", "o", "f">>

\* KpopSpotifyCleaner.is_valid_spotify_release
is_valid_spotify_release(release) ==
    LET name == release.name
        name_lower == LowerStr(name)
    IN  /\ release.total_tracks >= 1
        /\ Len(Strip(name)) >= 1
        /\ ~(release.album_type = "compilation" /\ Contains(name_lower, StrVarious))
        /\ Strip(name_lower) \notin {StrParenNull, StrNull, StrUndefined, StrTest}
        /\ ~Contains(name_lower, StrVariousArtists)
        /\ ~Contains(name_lower, StrHitsAnnees)
        /\ ~Contains(name_lower, StrBestOf)

\* KpopSpotifyCleaner.verify_album_belongs_to_artist
verify_album_belongs_to_artist(album, expected_spotify_id, expected_artist_name) ==
    \E i \in 1..Len(album.artists) : album.artists[i].id = expected_spotify_id

\* get_official_albums: valid_albums of a page (line 320)
valid_official_albums(page) ==
    SelectSeq(page, LAMBDA album : is_valid_spotify_release(album))

\* get_search_albums: valid_albums of a page (lines 376-381)
valid_search_albums(page, spotify_id, artist_name) ==
    SelectSeq(page, LAMBDA album :
        /\ is_valid_spotify_release(album)
        /\ verify_album_belongs_to_artist(album, spotify_id, artist_name))

\* {**album, 'discovery_method': method}
Tagged(album, method) ==
    [id |-> album.id, name |-> album.name, total_tracks |-> album.total_tracks,
     release_date |-> album.release_date, album_type |-> album.album_type,
     artists |-> album.artists, discovery_method |-> method]

\* str comparison a < b of two release_date values
RECURSIVE DateLess(_, _)
DateLess(a, b) ==
    IF b = <<>> THEN FALSE
    ELSE IF a = <<>> THEN TRUE
    ELSE IF Head(a) # Head(b) THEN Head(a) < Head(b)
    ELSE DateLess(Tail(a), Tail(b))

\* unique_albums[album_id] = value: a dict keeps the position of a key it
\* already holds
DictSet(dict, value) ==
    IF \E i \in 1..Len(dict) : dict[i].id = value.id
    THEN [i \in 1..Len(dict) |-> IF dict[i].id = value.id THEN value ELSE dict[i]]
    ELSE Append(dict, value)

\* the loop over official_albums (lines 415-421)
RECURSIVE AddOfficial(_, _)
AddOfficial(unique_albums, official_albums) ==
    IF official_albums = <<>> THEN unique_albums
    ELSE LET album == Head(official_albums)
         IN  AddOfficial(IF album.id # ""
                         THEN DictSet(unique_albums, Tagged(album, "official"))
                         ELSE unique_albums,
                         Tail(official_albums))

\* the loop over search_albums (lines 425-432)
RECURSIVE AddSearch(_, _)
AddSearch(unique_albums, search_albums) ==
    IF search_albums = <<>> THEN unique_albums
    ELSE LET album == Head(search_albums)
         IN  AddSearch(IF /\ album.id # ""
                          /\ ~\E i \in 1..Len(unique_albums) :
                                 unique_albums[i].id = album.id
                       THEN Append(unique_albums, Tagged(album, "search"))
                       ELSE unique_albums,
                       Tail(search_albums))

\* list.sort(key=release_date, reverse=True): stable, descending
RECURSIVE InsertByDate(_, _)
InsertByDate(sorted, album) ==
    IF sorted = <<>> THEN <<album>>
    ELSE IF DateLess(Head(sorted).release_date, album.release_date)
    THEN <<album>> \o sorted
    ELSE <<Head(sorted)>> \o InsertByDate(Tail(sorted), album)

RECURSIVE SortByDateDesc(_, _)
SortByDateDesc(sorted, rest) ==
    IF rest = <<>> THEN sorted
    ELSE SortByDateDesc(InsertByDate(sorted, Head(rest)), Tail(rest))

\* merge_albums whose second loop stores every search item as the first loop
\* does, without the "not in unique_albums" test
merge_albums_search_overrides(official_albums, search_albums) ==
    SortByDateDesc(<<>>,
        AddOfficial(AddOfficial(<<>>, official_albums), search_albums))

\* merge_albums keeping the first item of a repeated official id, not the last
merge_albums_first_wins(official_albums, search_albums) ==
    SortByDateDesc(<<>>,
        AddSearch(AddOfficial(<<>>,
                      [i \in 1..Len(official_albums) |->
                          official_albums[Len(official_albums) + 1 - i]]),
                  search_albums))

\* merge_albums without the sort of line 436: the dict's order is returned
merge_albums_unsorted(official_albums, search_albums) ==
    AddSearch(AddOfficial(<<>>, official_albums), search_albums)

\* an ascending sort read backwards: items of equal date end in the reverse of
\* their insertion order
RECURSIVE InsertBeforeTies(_, _)
InsertBeforeTies(sorted, album) ==
    IF sorted = <<>> THEN <<album>>
    ELSE IF ~DateLess(album.release_date, Head(sorted).release_date)
    THEN <<album>> \o sorted
    ELSE <<Head(sorted)>> \o InsertBeforeTies(Tail(sorted), album)

RECURSIVE SortTiesReversed(_, _)
SortTiesReversed(sorted, rest) ==
    IF rest = <<>> THEN sorted
    ELSE SortTiesReversed(InsertBeforeTies(sorted, Head(rest)), Tail(rest))

\* merge_albums whose sort is sorted(...)[::-1] rather than reverse=True
merge_albums_ties_reversed(official_albums, search_albums) ==
    SortTiesReversed(<<>>,
        AddSearch(AddOfficial(<<>>, official_albums), search_albums))

\* KpopSpotifyCleaner.merge_albums
merge_albums(official_albums, search_albums) ==
    SortByDateDesc(<<>>,
        AddSearch(AddOfficial(<<>>, official_albums), search_albums))

RelA == [id |-> "a1", name |-> <<"A">>, total_tracks |-> 8,
         release_date |-> <<2020>>, album_type |-> "album",
         artists |-> <<ArtistS1>>]
RelADeluxe == [id |-> "a1", name |-> <<"A">>, total_tracks |-> 9,
               release_date |-> <<2021, 5>>, album_type |-> "album",
               artists |-> <<ArtistS1>>]
RelFeat == [id |-> "a2", name |-> <<"B">>, total_tracks |-> 5,
            release_date |-> <<2021>>, album_type |-> "single",
            artists |-> <<ArtistS2, ArtistS1>>]
RelSimilar == [id |-> "a3", name |-> <<"C">>, total_tracks |-> 4,
               release_date |-> <<>>, album_type |-> "album",
               artists |-> <<ArtistS2Similar>>]
RelNoId == [id |-> "", name |-> <<"B">>, total_tracks |-> 6,
            release_date |-> <<2020>>, album_type |-> "album",
            artists |-> <<ArtistS1>>]
RelNull == [id |-> "a4", name |-> <<"N", "u", "l", "l">>, total_tracks |-> 3,
            release_date |-> <<2020, 1, 2>>, album_type |-> "single",
            artists |-> <<ArtistS1>>]

\* a second release of the target artist dated as RelFeat is
RelTwin == [id |-> "a7", name |-> <<"T">>, total_tracks |-> 6,
            release_date |-> <<2021>>, album_type |-> "album",
            artists |-> <<ArtistS1>>]

PageReleases ==
    {RelA, RelADeluxe, RelFeat, RelSimilar, RelNoId, RelNull, RelTwin}

RECURSIVE SeqsUpTo(_, _)
SeqsUpTo(S, n) ==
    IF n = 0 THEN {<<>>}
    ELSE LET shorter == SeqsUpTo(S, n - 1)
         IN  shorter \cup {Append(q, x) : q \in shorter, x \in S}

MergeInit ==
    /\ official \in SeqsUpTo(PageReleases, MaxOfficial)
    /\ search \in SeqsUpTo(PageReleases, MaxSearch)
    /\ officialValid = <<>>
    /\ searchValid = <<>>
    /\ merged = <<>>
    /\ mpc = "start"

\* official_albums = self.get_official_albums(spotify_id, artist_name)
GetOfficialAlbums ==
    /\ mpc = "start"
    /\ officialValid' = valid_official_albums(official)
    /\ mpc' = "official"
    /\ UNCHANGED <<official, search, searchValid, merged>>
    /\ UNCHANGED storeVars
    /\ UNCHANGED valVars
    /\ UNCHANGED simVars
    /\ UNCHANGED procVars

\* search_albums = self.get_search_albums(spotify_id, artist_name)
GetSearchAlbums ==
    /\ mpc = "official"
    /\ searchValid' = valid_search_albums(search, TargetId, TargetName)
    /\ mpc' = "search"
    /\ UNCHANGED <<official, search, officialValid, merged>>
    /\ UNCHANGED storeVars
    /\ UNCHANGED valVars
    /\ UNCHANGED simVars
    /\ UNCHANGED procVars

\* all_albums = self.merge_albums(official_albums, search_albums, ...)
MergeAlbums ==
    /\ mpc = "search"
    /\ merged' = merge_albums(officialValid, searchValid)
    /\ mpc' = "merged"
    /\ UNCHANGED <<official, search, officialValid, searchValid>>
    /\ UNCHANGED storeVars
    /\ UNCHANGED valVars
    /\ UNCHANGED simVars
    /\ UNCHANGED procVars

NextMerge == GetOfficialAlbums \/ GetSearchAlbums \/ MergeAlbums

InitMerge == StoreInit /\ ValIdle /\ MergeInit /\ SimIdle /\ ProcIdle

SpecMerge == InitMerge /\ [][NextMerge]_vars

(***************************************************************************)
(* C3: merge dedup.  When a (non-empty) album id X occurs both in the      *)
(* official list and in the search list passed to merge_albums, the        *)
(* result holds exactly one record with id X; it is tagged "official" and  *)
(* its fields are those of an official item, not of the search item.       *)
(***************************************************************************)
C3_MergeDedup ==
    mpc = "merged" =>
        \A i \in 1..Len(officialValid), j \in 1..Len(searchValid) :
            (officialValid[i].id = searchValid[j].id /\ officialValid[i].id # "")
            => /\ Cardinality({k \in 1..Len(merged) :
                                  merged[k].id = officialValid[i].id}) = 1
               /\ \A k \in 1..Len(merged) :
                   merged[k].id = officialValid[i].id
                   => /\ merged[k].discovery_method = "official"
                      /\ \E n \in 1..Len(officialValid) :
                          merged[k] = Tagged(officialValid[n], "official")

\* an id is in both lists, with different fields in each
C3_Witness ==
    /\ mpc = "merged"
    /\ \E i \in 1..Len(officialValid), j \in 1..Len(searchValid) :
        /\ officialValid[i].id = searchValid[j].id
        /\ officialValid[i].id # ""
        /\ officialValid[i] # searchValid[j]
        /\ \A n \in 1..Len(officialValid) : officialValid[n] # searchValid[j]

(***************************************************************************)
(* C4 as stated: every item of the official list is kept in the merged     *)
(* result with the "official" tag, none is dropped, be its id empty or     *)
(* repeated within the list.                                               *)
(***************************************************************************)
C4_EveryOfficialItemKept ==
    mpc = "merged" =>
        /\ \A i \in 1..Len(officialValid) :
            \E k \in 1..Len(merged) :
                merged[k] = Tagged(officialValid[i], "official")
        /\ Cardinality({k \in 1..Len(merged) :
                           merged[k].discovery_method = "official"})
               = Len(officialValid)

\* the last position of an id in a list
LastIndexOf(list, id) ==
    CHOOSE i \in 1..Len(list) :
        /\ list[i].id = id
        /\ \A j \in 1..Len(list) : list[j].id = id => j <= i

(***************************************************************************)
(* C4 amended: every id-carrying item of the official list is represented  *)
(* by exactly one merged record with its id; that record is tagged         *)
(* "official" and carries the fields of the last official item with that   *)
(* id.  Items without an id are dropped: no merged record has an empty id, *)
(* and there are as many "official" records as distinct official ids.      *)
(***************************************************************************)
C4_OfficialIdsKept ==
    mpc = "merged" =>
        /\ \A i \in 1..Len(officialValid) :
            officialValid[i].id # ""
            => /\ Cardinality({k \in 1..Len(merged) :
                                  merged[k].id = officialValid[i].id}) = 1
               /\ \E k \in 1..Len(merged) :
                   merged[k] =
                       Tagged(officialValid[LastIndexOf(officialValid,
                                                        officialValid[i].id)],
                              "official")
        /\ \A k \in 1..Len(merged) : merged[k].id # ""
        /\ Cardinality({k \in 1..Len(merged) :
                           merged[k].discovery_method = "official"})
               = Cardinality({officialValid[i].id : i \in 1..Len(officialValid)}
                                 \ {""})

\* the official list holds an item without id and two different items of one id
C4_Witness ==
    /\ mpc = "merged"
    /\ \E i \in 1..Len(officialValid) : officialValid[i].id = ""
    /\ \E i, j \in 1..Len(officialValid) :
        /\ i < j
        /\ officialValid[i].id = officialValid[j].id
        /\ officialValid[i] # officialValid[j]
        /\ \E k \in 1..Len(merged) :
            merged[k] = Tagged(officialValid[j], "official")

(***************************************************************************)
(* C5 as stated: a search-sourced release whose first credited artist is   *)
(* not the target is excluded from the harvested set, so every harvested   *)
(* record tagged "search" has the target as its first credited artist.     *)
(***************************************************************************)
C5_SearchOwnedByPrimary ==
    mpc = "merged" =>
        \A k \in 1..Len(merged) :
            merged[k].discovery_method = "search"
            => /\ Len(merged[k].artists) >= 1
               /\ merged[k].artists[1].id = TargetId

(***************************************************************************)
(* SpecValidate: KpopSpotifyCleaner.validate_kpop_artist_by_id, one        *)
(* request of the while loop per step.  The provider's answer to each      *)
(* request is chosen freely.                                               *)
(***************************************************************************)
max_retries == 3
RateLimitCeiling == 600
BackoffCap == 60

\* what requests.get yields: status 0 stands for a raised exception;
\* has_kpop_genre is the outcome of the genre test on a 200 body;
\* retry_after is int(Retry-After) of a 429
Response(status, has_kpop_genre, retry_after) ==
    [status |-> status, has_kpop_genre |-> has_kpop_genre,
     retry_after |-> retry_after]

ResponseKpop == Response(200, TRUE, 0)
ResponseNotKpop == Response(200, FALSE, 0)
ResponseNotFound == Response(404, FALSE, 0)
ResponseRateShort == Response(429, FALSE, 30)
ResponseRateCeiling == Response(429, FALSE, 600)
ResponseRateExtreme == Response(429, FALSE, 700)
ResponseServerError == Response(500, FALSE, 0)
ResponseException == Response(0, FALSE, 0)

Responses ==
    {ResponseKpop, ResponseNotKpop, ResponseNotFound, ResponseRateShort,
     ResponseRateCeiling, ResponseRateExtreme, ResponseServerError,
     ResponseException}

RECURSIVE Pow2(_)
Pow2(k) == IF k = 0 THEN 1 ELSE 2 * Pow2(k - 1)

Min(a, b) == IF a <= b THEN a ELSE b

\* "return value": the call is over
Returned(value, cause, count) ==
    [done |-> TRUE, ret |-> value, cause |-> cause, retry_count |-> count,
     sleep |-> <<>>]

\* "continue": the while test follows; a failed test falls through to the
\* final "return False"
Continue(kind, seconds, count) ==
    [done |-> count >= max_retries, ret |-> FALSE,
     cause |-> IF count >= max_retries THEN "max_retries" ELSE "none",
     retry_count |-> count, sleep |-> <<[kind |-> kind, seconds |-> seconds]>>]

\* one pass of the loop body in which a failed request is not counted
validate_attempt_uncounted(count, response) ==
    IF response.status = 200
    THEN Returned(response.has_kpop_genre,
                  IF response.has_kpop_genre THEN "kpop" ELSE "not_kpop", count)
    ELSE IF response.status = 429
    THEN IF response.retry_after > RateLimitCeiling
         THEN Returned(FALSE, "rate_limit_extreme", count)
         ELSE Continue("rate_limit", response.retry_after, count + 1)
    ELSE IF response.status = 404
    THEN Returned(FALSE, "not_found", count)
    ELSE Continue("backoff", Min(Pow2(count + 1), BackoffCap), count)

\* one pass of the loop body (lines 211-266), from the request to the next
\* evaluation of the while test
validate_attempt(count, response) ==
    IF response.status = 200
    THEN Returned(response.has_kpop_genre,
                  IF response.has_kpop_genre THEN "kpop" ELSE "not_kpop", count)
    ELSE IF response.status = 429
    THEN IF response.retry_after > RateLimitCeiling
         THEN Returned(FALSE, "rate_limit_extreme", count)
         ELSE Continue("rate_limit", response.retry_after, count + 1)
    ELSE IF response.status = 404
    THEN Returned(FALSE, "not_found", count)
    ELSE Continue("backoff", Min(Pow2(count + 1), BackoffCap), count + 1)

\* the call is entered with a usable token (lines 204-208)
ValidateCall ==
    /\ vpc = "idle"
    /\ vpc' = "loop"
    /\ retry_count' = 0
    /\ UNCHANGED <<requests, sleeps, vlog, vret>>
    /\ UNCHANGED storeVars
    /\ UNCHANGED mergeVars
    /\ UNCHANGED simVars
    /\ UNCHANGED procVars

\* refresh_spotify_token_if_needed fails (lines 204-205)
ValidateNoToken ==
    /\ vpc = "idle"
    /\ vpc' = "done"
    /\ vret' = FALSE
    /\ UNCHANGED <<retry_count, requests, sleeps, vlog>>
    /\ UNCHANGED storeVars
    /\ UNCHANGED mergeVars
    /\ UNCHANGED simVars
    /\ UNCHANGED procVars

ValidateAttempt ==
    /\ vpc = "loop"
    /\ retry_count < max_retries
    /\ \E response \in Responses :
        LET r == validate_attempt(retry_count, response)
        IN  /\ requests' = requests + 1
            /\ retry_count' = r.retry_count
            /\ sleeps' = sleeps \o r.sleep
            /\ vlog' = Append(vlog, response)
            /\ vpc' = IF r.done THEN "done" ELSE "loop"
            /\ vret' = IF r.done THEN r.ret ELSE vret
    /\ UNCHANGED storeVars
    /\ UNCHANGED mergeVars
    /\ UNCHANGED simVars
    /\ UNCHANGED procVars

NextValidate == ValidateCall \/ ValidateNoToken \/ ValidateAttempt

SpecValidate == Init /\ [][NextValidate]_vars

\* a response that is neither 200, 429 nor 404, or a raised exception
IsTransient(response) == response.status \notin {200, 429, 404}

(***************************************************************************)
(* C7 as stated: a 429 whose suggested wait exceeds 600 s causes no sleep, *)
(* ends the validation, and hands the caller an outcome that differs from  *)
(* the one of "not found" and from the one of "validation failed"; no      *)
(* rate-limit sleep is longer than 600 s.                                  *)
(***************************************************************************)
C7_ExtremeRateLimitSignalled ==
    /\ \A i \in 1..Len(sleeps) : sleeps[i].seconds <= RateLimitCeiling
    /\ (vlog # <<>> /\ vlog[Len(vlog)] = ResponseRateExtreme)
       => /\ vpc = "done"
          /\ Len(sleeps) = Len(vlog) - 1
          /\ vret # validate_attempt(0, ResponseNotFound).ret
          /\ vret # validate_attempt(0, ResponseNotKpop).ret

(***************************************************************************)
(* C8 as stated: a below-ceiling 429 is followed by a pause of the         *)
(* suggested duration and does not consume the retry budget: the budget    *)
(* spent is the number of transient failures received, whatever the number *)
(* of below-ceiling 429s.                                                  *)
(***************************************************************************)
C8_RateLimitWaitsUncounted ==
    /\ \A i \in 1..Len(sleeps) :
        sleeps[i].kind = "rate_limit" => sleeps[i].seconds = vlog[i].retry_after
    /\ retry_count = Cardinality({i \in 1..Len(vlog) : IsTransient(vlog[i])})

(***************************************************************************)
(* C9: validate_kpop_artist_by_id issues at most 3 requests; the k-th      *)
(* backoff wait is min(2^k, 60) seconds and none exceeds 60 seconds; after *)
(* a 3rd transient failure the call is over and its result is False.       *)
(***************************************************************************)
C9_TransientRetryBound ==
    /\ requests <= 3
    /\ \A k \in 1..Len(sleeps) :
        sleeps[k].kind = "backoff"
        => /\ sleeps[k].seconds = Min(Pow2(k), 60)
           /\ sleeps[k].seconds <= 60
    /\ (Len(vlog) = 3 /\ \A i \in 1..Len(vlog) : IsTransient(vlog[i]))
       => (vpc = "done" /\ vret = FALSE)

\* three transient failures in a row, an HTTP error and an exception among them
C9_Witness ==
    /\ vpc = "done"
    /\ requests = 3
    /\ vlog = <<ResponseServerError, ResponseException, ResponseServerError>>
    /\ sleeps = <<[kind |-> "backoff", seconds |-> 2],
                  [kind |-> "backoff", seconds |-> 4],
                  [kind |-> "backoff", seconds |-> 8]>>
    /\ vret = FALSE

(***************************************************************************)
(* SpecClean: the cleaning pass of KpopSpotifyCleaner over the stored      *)
(* groups, one clean_albums_for_group call per step.                       *)
(***************************************************************************)
RetryWindow == 86400
MaxAlbumId == 2

ReasonNoSpotifyId ==
    <<"P", "a", "s", " ", "d", "e", " ", "S", "p", "o", "t", "i",
      "f", "y", " ", "I", "D">>
ReasonNotKpop ==
    <<"P", "a", "s", " ", "K", "-", "p", "o", "p", " ", "o", "u",
      " ", "a", "r", "t", "i", "s", "t", "e", " ", "i", "n", "e",
      "x", "i", "s", "t", "a", "n", "t">>
Str429 == <<"4", "2", "9">>
StrRate == <<"r", "a", "t", "e">>
StrRateLimiting ==
    <<"R", "a", "t", "e", " ", "l", "i", "m", "i", "t", "i", "n",
      "g">>

\* a stored spotifyId of the 22-character format
IsSpotifyIdFormat(id) == id \in SpotifyIds

\* spotify_url.split('/artist/')[-1].split('?')[0]
IdOfUrl(spotify_url) ==
    LET k == CHOOSE i \in 1..Len(spotify_url) :
                 /\ spotify_url[i] = "/artist/"
                 /\ \A j \in 1..Len(spotify_url) :
                     spotify_url[j] = "/artist/" => j <= i
        rest == SubSeq(spotify_url, k + 1, Len(spotify_url))
        cut == {i \in 1..Len(rest) : rest[i] = "?"}
        q == IF cut = {} THEN Len(rest) + 1
             ELSE CHOOSE i \in cut : \A j \in cut : i <= j
    IN  SubSeq(rest, 1, q - 1)

\* KpopSpotifyCleaner.extract_spotify_id_from_group; "" stands for None
extract_spotify_id_from_group(group) ==
    IF group.spotifyId # "" /\ IsSpotifyIdFormat(group.spotifyId)
    THEN group.spotifyId
    ELSE IF /\ group.socialLinks # <<>>
            /\ \E i \in 1..Len(group.socialLinks) : group.socialLinks[i] = "/artist/"
    THEN LET spotify_id == IdOfUrl(group.socialLinks)
         IN  IF Len(spotify_id) = 1 /\ IsSpotifyIdFormat(spotify_id[1])
             THEN spotify_id[1]
             ELSE ""
    ELSE ""

\* the filter of get_groups_from_database at time current_time
IsSelected(group, current_time) ==
    /\ group.isActive
    /\ \/ ~group.rateLimited
       \/ group.retryAfter # NoTime /\ group.retryAfter < current_time

\* what a finished call returns and what it did on the way: the longest sleep
\* and whether every response it received was a transient failure
Outcome(ret, cause, longest_sleep, transient_only) ==
    [ret |-> ret, cause |-> cause, longest_sleep |-> longest_sleep,
     transient_only |-> transient_only]

\* the while loop, for the provider's answers to its requests
RECURSIVE validate_loop(_, _, _, _)
validate_loop(count, script, longest_sleep, transient_only) ==
    LET r == validate_attempt(count, Head(script))
        longest == IF r.sleep # <<>> /\ r.sleep[1].seconds > longest_sleep
                   THEN r.sleep[1].seconds ELSE longest_sleep
        transient == transient_only /\ IsTransient(Head(script))
    IN  IF r.done
        THEN Outcome(r.ret, r.cause, longest, transient)
        ELSE validate_loop(r.retry_count, Tail(script), longest, transient)

\* KpopSpotifyCleaner.validate_kpop_artist_by_id
validate_kpop_artist_by_id(token_ok, script) ==
    IF ~token_ok
    THEN Outcome(FALSE, "no_token", 0, FALSE)
    ELSE validate_loop(0, script, 0, TRUE)

\* the answers drawn for the requests of a cleaning pass
CleanResponses ==
    {ResponseKpop, ResponseNotKpop, ResponseNotFound, ResponseRateShort,
     ResponseRateExtreme, ResponseServerError, ResponseException}

ValidateOutcomes ==
    {validate_kpop_artist_by_id(token_ok, script) :
        token_ok \in BOOLEAN, script \in [1..max_retries -> CleanResponses]}

\* mark_group_as_invalid whose test of line 526 lacks reason.lower()
mark_group_as_invalid_case_sensitive(gs, group_id, reason, t) ==
    IF \/ Contains(reason, Str429)
       \/ Contains(reason, StrRateLimiting)
    THEN [i \in 1..Len(gs) |->
             IF gs[i]._id = group_id
             THEN [gs[i] EXCEPT !.isActive = TRUE,
                                !.rateLimited = TRUE,
                                !.retryAfter = t + RetryWindow,
                                !.rateLimitReason = reason,
                                !.updatedAt = t]
             ELSE gs[i]]
    ELSE [i \in 1..Len(gs) |->
             IF gs[i]._id = group_id
             THEN [gs[i] EXCEPT !.isActive = FALSE,
                                !.invalidReason = reason,
                                !.updatedAt = t]
             ELSE gs[i]]

\* KpopSpotifyCleaner.mark_group_as_invalid at time t (_id is unique, so
\* update_one writes the one document that has it)
mark_group_as_invalid(gs, group_id, reason, t) ==
    IF \/ Contains(reason, Str429)
       \/ Contains(LowerStr(reason), StrRate)
       \/ Contains(reason, StrRateLimiting)
    THEN [i \in 1..Len(gs) |->
             IF gs[i]._id = group_id
             THEN [gs[i] EXCEPT !.isActive = TRUE,
                                !.rateLimited = TRUE,
                                !.retryAfter = t + RetryWindow,
                                !.rateLimitReason = reason,
                                !.updatedAt = t]
             ELSE gs[i]]
    ELSE [i \in 1..Len(gs) |->
             IF gs[i]._id = group_id
             THEN [gs[i] EXCEPT !.isActive = FALSE,
                                !.invalidReason = reason,
                                !.updatedAt = t]
             ELSE gs[i]]

\* KpopSpotifyCleaner.create_album_document
cleaner_create_album_document(spotify_album, group, t) ==
    [_id |-> 0,
     name |-> Strip(spotify_album.name),
     artistId |-> group._id,
     artistName |-> group.name,
     spotifyId |-> spotify_album.id,
     releaseDate |-> spotify_album.release_date,
     totalTracks |-> spotify_album.total_tracks,
     albumType |-> spotify_album.album_type,
     discoveryMethod |-> spotify_album.discovery_method,
     createdAt |-> t,
     updatedAt |-> t]

\* the loop that inserts one document per harvested album (lines 500-518)
RECURSIVE InsertAlbums(_, _, _, _, _)
InsertAlbums(as, harvested, group, t, newId) ==
    IF harvested = <<>> THEN [albums |-> as, nextId |-> newId]
    ELSE InsertAlbums(
             Append(as, [cleaner_create_album_document(Head(harvested), group, t)
                            EXCEPT !._id = newId]),
             Tail(harvested), group, t, newId + 1)

\* KpopSpotifyCleaner.get_albums_by_artist_id on one page of each endpoint
get_albums_by_artist_id(spotify_id, artist_name, official_page, search_page) ==
    merge_albums(valid_official_albums(official_page),
                 valid_search_albums(search_page, spotify_id, artist_name))

\* what a clean_albums_for_group call leaves behind; album_requests counts
\* the listings get_albums_by_artist_id asked the provider for
CleanResult(gs, as, newId, group, step, outcome, deleted) ==
    [groups |-> gs, albums |-> as, nextId |-> newId,
     last |-> [op |-> "clean", group |-> group._id, step |-> step,
               cause |-> outcome.cause,
               transient_only |-> outcome.transient_only,
               longest_sleep |-> outcome.longest_sleep,
               deleted |-> deleted,
               album_requests |-> IF step = "cleaned" THEN 2 ELSE 0]]

NoValidation == Outcome(FALSE, "none", 0, FALSE)

\* clean_albums_for_group with the delete_many of line 474 moved before the
\* two early returns
clean_albums_for_group_delete_first(gs, as, group, outcome, official_page, search_page, t, newId) ==
    LET group_id == group._id
        spotify_id == extract_spotify_id_from_group(group)
        kept == SelectSeq(as, LAMBDA a : a.artistId # group_id)
    IN  IF spotify_id = ""
        THEN CleanResult(mark_group_as_invalid(gs, group_id, ReasonNoSpotifyId, t),
                         kept, newId, group, "no_spotify_id", NoValidation,
                         Len(as) - Len(kept))
        ELSE IF ~outcome.ret
        THEN CleanResult(mark_group_as_invalid(gs, group_id, ReasonNotKpop, t),
                         kept, newId, group, "not_validated", outcome,
                         Len(as) - Len(kept))
        ELSE LET updated == [i \in 1..Len(gs) |->
                                IF gs[i]._id = group_id
                                THEN [gs[i] EXCEPT !.spotifyId = spotify_id,
                                                   !.updatedAt = t,
                                                   !.isActive = TRUE,
                                                   !.lastValidated = t]
                                ELSE gs[i]]
                 harvested == get_albums_by_artist_id(
                                  spotify_id, group.name, official_page, search_page)
                 inserted == InsertAlbums(kept, harvested, group, t, newId)
             IN  CleanResult(updated, inserted.albums, inserted.nextId, group,
                             "cleaned", outcome, Len(as) - Len(kept))

\* KpopSpotifyCleaner.clean_albums_for_group at time t; outcome is what
\* validate_kpop_artist_by_id does when it is called, the pages are what the
\* provider lists for the artist
clean_albums_for_group(gs, as, group, outcome, official_page, search_page, t, newId) ==
    LET group_id == group._id
        spotify_id == extract_spotify_id_from_group(group)
    IN  IF spotify_id = ""
        THEN CleanResult(mark_group_as_invalid(gs, group_id, ReasonNoSpotifyId, t),
                         as, newId, group, "no_spotify_id", NoValidation, 0)
        ELSE IF ~outcome.ret
        THEN CleanResult(mark_group_as_invalid(gs, group_id, ReasonNotKpop, t),
                         as, newId, group, "not_validated", outcome, 0)
        ELSE LET kept == SelectSeq(as, LAMBDA a : a.artistId # group_id)
                 updated == [i \in 1..Len(gs) |->
                                IF gs[i]._id = group_id
                                THEN [gs[i] EXCEPT !.spotifyId = spotify_id,
                                                   !.updatedAt = t,
                                                   !.isActive = TRUE,
                                                   !.lastValidated = t]
                                ELSE gs[i]]
                 harvested == get_albums_by_artist_id(
                                  spotify_id, group.name, official_page, search_page)
                 inserted == InsertAlbums(kept, harvested, group, t, newId)
             IN  CleanResult(updated, inserted.albums, inserted.nextId, group,
                             "cleaned", outcome, Len(as) - Len(kept))

\* documents the store holds before the cleaner runs: a group without any
\* Spotify reference and one that has only its Spotify URL
LegacyGroup(name, spotify_url) ==
    [_id |-> 1, name |-> name, spotifyId |-> "", socialLinks |-> spotify_url,
     isActive |-> TRUE, rateLimited |-> FALSE, retryAfter |-> NoTime,
     rateLimitReason |-> <<>>, invalidReason |-> <<>>,
     createdAt |-> 0, updatedAt |-> 0, lastValidated |-> NoTime]

LegacyStores ==
    {<<>>,
     <<LegacyGroup(<<"B">>, <<>>)>>,
     <<LegacyGroup(<<"C">>, SpotifyUrl("s2") \o <<"?", "si=1">>)>>}

CleanInit ==
    /\ groups \in LegacyStores
    /\ albums = <<>>
    /\ now = 0
    /\ nextGroupId = Len(groups) + 1
    /\ nextAlbumId = 1
    /\ last = NoOp

OfficialPages == {<<>>, <<RelA>>}
SearchPages == {<<>>, <<RelFeat>>}

\* GET /artists/{spotify_id}/albums lists releases that credit the artist
ListedFor(page, spotify_id) ==
    \A k \in 1..Len(page) :
        \E a \in 1..Len(page[k].artists) : page[k].artists[a].id = spotify_id

\* run_cleaning calls clean_albums_for_group for a group that
\* get_groups_from_database selected
CleanAlbumsForGroup ==
    \E g \in 1..Len(groups), outcome \in ValidateOutcomes,
       official_page \in OfficialPages, search_page \in SearchPages :
        /\ IsSelected(groups[g], now)
        /\ ListedFor(official_page, extract_spotify_id_from_group(groups[g]))
        /\ \E r \in {clean_albums_for_group(groups, albums, groups[g], outcome,
                                            official_page, search_page, now,
                                            nextAlbumId)} :
            /\ r.nextId <= MaxAlbumId + 1
            /\ groups' = r.groups
            /\ albums' = r.albums
            /\ nextAlbumId' = r.nextId
            /\ last' = r.last
            /\ UNCHANGED <<now, nextGroupId>>
            /\ UNCHANGED valVars
            /\ UNCHANGED mergeVars
            /\ UNCHANGED simVars
            /\ UNCHANGED procVars

CleanArtists == {<<ArtistS1>>}

NextClean ==
    \/ Tick
    \/ AddDiscoveredArtistsFrom(CleanArtists)
    \/ CleanAlbumsForGroup

InitClean == CleanInit /\ ValIdle /\ MergeIdle /\ SimIdle /\ ProcIdle

SpecClean == InitClean /\ [][NextClean]_vars

(***************************************************************************)
(* C6 as stated: when the revalidation of an active group receives a 429   *)
(* whose suggested wait is above 600 s, the process does not sleep that    *)
(* long and the group ends the pass quarantined: still active, flagged     *)
(* rate-limited, with retryAfter 24 hours after the time of the pass.      *)
(***************************************************************************)
C6_QuarantinedAfterExtremeRateLimit ==
    (last.op = "clean" /\ last.cause = "rate_limit_extreme")
    => /\ last.longest_sleep <= 600
       /\ \A i \in 1..Len(groups) :
           groups[i]._id = last.group
           => /\ groups[i].isActive
              /\ groups[i].rateLimited
              /\ groups[i].retryAfter = groups[i].updatedAt + 86400

(***************************************************************************)
(* C10 as stated: when the validation of a group ends because transient    *)
(* failures used up the retry budget, the group is only skipped: it is not *)
(* made inactive and none of its releases is deleted.                      *)
(***************************************************************************)
C10_UpstreamErrorSkipsGroup ==
    (last.op = "clean" /\ last.cause = "max_retries" /\ last.transient_only)
    => /\ last.deleted = 0
       /\ \A i \in 1..Len(groups) :
           groups[i]._id = last.group => groups[i].isActive

(***************************************************************************)
(* SpecSimilarity: HybridKpopCollector.calculate_name_similarity on a pair *)
(* of names.  A similarity is the exact fraction num/den of the float the  *)
(* code computes; comparisons are made on the fractions.                   *)
(***************************************************************************)
MaxNameLen == 3

Fraction(num, den) == [num |-> num, den |-> den]

\* x < y for two fractions with positive denominators
FracLess(x, y) == x.num * y.den < y.num * x.den

\* the length of the common run of a[i..ahi] and b[j..bhi] from their starts
RECURSIVE RunLen(_, _, _, _, _, _)
RunLen(a, i, ahi, b, j, bhi) ==
    IF i > ahi \/ j > bhi \/ a[i] # b[j] THEN 0
    ELSE 1 + RunLen(a, i + 1, ahi, b, j + 1, bhi)

\* difflib.SequenceMatcher.find_longest_match without junk: the longest
\* common block of a[alo..ahi] and b[blo..bhi]; of the longest ones the one
\* that starts earliest in a, and of those the one that starts earliest in b
find_longest_match(a, alo, ahi, b, blo, bhi) ==
    LET size(i, j) == RunLen(a, i, ahi, b, j, bhi)
        starts == (alo..ahi) \X (blo..bhi)
    IN  IF starts = {} THEN <<alo, blo, 0>>
        ELSE LET best == CHOOSE p \in starts :
                     \A q \in starts :
                         \/ size(p[1], p[2]) > size(q[1], q[2])
                         \/ /\ size(p[1], p[2]) = size(q[1], q[2])
                            /\ \/ p[1] < q[1]
                               \/ p[1] = q[1] /\ p[2] <= q[2]
             IN  <<best[1], best[2], size(best[1], best[2])>>

\* the total size of difflib's matching blocks of a[alo..ahi] and b[blo..bhi]
RECURSIVE MatchingSize(_, _, _, _, _, _)
MatchingSize(a, alo, ahi, b, blo, bhi) ==
    LET m == find_longest_match(a, alo, ahi, b, blo, bhi)
    IN  IF m[3] = 0 THEN 0
        ELSE m[3] + MatchingSize(a, alo, m[1] - 1, b, blo, m[2] - 1)
                  + MatchingSize(a, m[1] + m[3], ahi, b, m[2] + m[3], bhi)

\* difflib.SequenceMatcher(None, a, b).ratio()
SequenceMatcherRatio(a, b) ==
    IF Len(a) + Len(b) = 0 THEN Fraction(1, 1)
    ELSE Fraction(2 * MatchingSize(a, 1, Len(a), b, 1, Len(b)), Len(a) + Len(b))

SimilarityFloor == Fraction(4, 5)
SimilarityThreshold == Fraction(3, 5)

\* calculate_name_similarity without the bonus for a contained name
calculate_name_similarity_no_bonus(n1_raw, n2_raw) ==
    SequenceMatcherRatio(Strip(LowerStr(n1_raw)), Strip(LowerStr(n2_raw)))

\* calculate_name_similarity testing containment on the names as given
calculate_name_similarity_raw_contains(n1_raw, n2_raw) ==
    LET n1 == Strip(LowerStr(n1_raw))
        n2 == Strip(LowerStr(n2_raw))
        ratio == SequenceMatcherRatio(n1, n2)
    IN  IF (Contains(n2_raw, n1_raw) \/ Contains(n1_raw, n2_raw))
           /\ FracLess(ratio, SimilarityFloor)
        THEN SimilarityFloor
        ELSE ratio

\* HybridKpopCollector.calculate_name_similarity
calculate_name_similarity(n1_raw, n2_raw) ==
    LET n1 == Strip(LowerStr(n1_raw))
        n2 == Strip(LowerStr(n2_raw))
        ratio == SequenceMatcherRatio(n1, n2)
    IN  IF (Contains(n2, n1) \/ Contains(n1, n2)) /\ FracLess(ratio, SimilarityFloor)
        THEN SimilarityFloor
        ELSE ratio

\* the test of cleanup_invalid_spotify_artists (line 857)
IsNameMismatch(name_similarity) == FracLess(name_similarity, SimilarityThreshold)

NameTWICE == <<"T", "W", "I", "C", "E">>
NameTwice == <<"T", "w", "i", "c", "e">>
NameTwiceEntertainment ==
    <<"T", "w", "i", "c", "e", " ", "E", "n", "t", "e", "r", "t", "a", "i",
      "n", "m", "e", "n", "t">>

NameChars == {"a", "B", " "}

ComparedNames ==
    SeqsUpTo(NameChars, MaxNameLen)
        \cup {NameTWICE, NameTwice, NameTwiceEntertainment}

SimInit ==
    /\ name1 \in ComparedNames
    /\ name2 \in ComparedNames
    /\ similarity = NoSimilarity

InitSimilarity == StoreInit /\ ValIdle /\ MergeIdle /\ SimInit /\ ProcIdle

\* name_similarity = self.calculate_name_similarity(group_name, artist_name)
CalculateNameSimilarity ==
    /\ similarity = NoSimilarity
    /\ similarity' = calculate_name_similarity(name1, name2)
    /\ UNCHANGED <<name1, name2>>
    /\ UNCHANGED storeVars
    /\ UNCHANGED valVars
    /\ UNCHANGED mergeVars
    /\ UNCHANGED procVars

NextSimilarity == CalculateNameSimilarity

SpecSimilarity == InitSimilarity /\ [][NextSimilarity]_vars

(***************************************************************************)
(* C15 as stated: for the stored name "TWICE" and the upstream name        *)
(* "Twice Entertainment" the computed similarity is below 0.6, so the      *)
(* group is rejected for a name mismatch.                                  *)
(***************************************************************************)
C15_TwiceEntertainmentRejected ==
    (/\ name1 = NameTWICE
     /\ name2 = NameTwiceEntertainment
     /\ similarity # NoSimilarity)
    => IsNameMismatch(similarity)

(***************************************************************************)
(* C15 amended: for the stored name "TWICE" and the upstream name          *)
(* "Twice Entertainment" the edit ratio alone (10/24) is below 0.6, but    *)
(* "twice" is contained in "twice entertainment", so the computed          *)
(* similarity is 0.8 and the group is not rejected for a name mismatch.    *)
(***************************************************************************)
C15_TwiceEntertainmentAccepted ==
    (/\ name1 = NameTWICE
     /\ name2 = NameTwiceEntertainment
     /\ similarity # NoSimilarity)
    => /\ SequenceMatcherRatio(Strip(LowerStr(name1)), Strip(LowerStr(name2)))
              = Fraction(10, 24)
       /\ similarity = Fraction(4, 5)
       /\ ~IsNameMismatch(similarity)

C15_Witness ==
    /\ name1 = NameTWICE
    /\ name2 = NameTwiceEntertainment
    /\ similarity = Fraction(4, 5)

(***************************************************************************)
(* C16: whenever one name is contained in the other after lower-casing     *)
(* and trimming (equal names included), calculate_name_similarity returns  *)
(* at least 0.8, so the pair is not rejected by the 0.6 threshold.         *)
(***************************************************************************)
C16_ContainedNameFloor ==
    (/\ similarity # NoSimilarity
     /\ \/ Contains(Strip(LowerStr(name2)), Strip(LowerStr(name1)))
        \/ Contains(Strip(LowerStr(name1)), Strip(LowerStr(name2))))
    => /\ ~FracLess(similarity, Fraction(4, 5))
       /\ ~IsNameMismatch(similarity)

\* a name contained in the other only once both are normalised, with an edit
\* ratio below 0.8
C16_Witness ==
    /\ similarity = Fraction(4, 5)
    /\ name1 # name2
    /\ ~Contains(name2, name1)
    /\ ~Contains(name1, name2)
    /\ Contains(Strip(LowerStr(name2)), Strip(LowerStr(name1)))
    /\ FracLess(SequenceMatcherRatio(Strip(LowerStr(name1)), Strip(LowerStr(name2))),
                Fraction(4, 5))

(***************************************************************************)
(* The collector's completion pass (process_existing_group_albums) and its *)
(* revalidation pass (cleanup_invalid_spotify_artists).                    *)
(***************************************************************************)
StrKaraoke == <<"k", "a", "r", "a", "o", "k", "e">>
StrVersion == <<"v", "e", "r", "s", "i", "o", "n">>
StrParenKaraoke == <<"(", "k", "a", "r", "a", "o", "k", "e", ")">>
StrSoundtrack == <<"s", "o", "u", "n", "d", "t", "r", "a", "c", "k">>
StrOriginal == <<"o", "r", "i", "g", "i", "n", "a", "l">>
StrPtDot == <<"p", "t", ".">>

\* release.get('album_group', '')
AlbumGroup(release) ==
    IF "album_group" \in DOMAIN release THEN release.album_group ELSE ""

\* re.search of a literal in s at or after position from: the position that
\* follows the leftmost occurrence, 0 when there is none
EndOfFirst(s, literal, from) ==
    LET starts == {i \in from..(Len(s) - Len(literal) + 1) :
                      SubSeq(s, i, i + Len(literal) - 1) = literal}
    IN  IF starts = {} THEN 0
        ELSE (CHOOSE i \in starts : \A j \in starts : i <= j) + Len(literal)

\* re.search(r'karaoke\s+version', s)
SearchKaraokeVersion(s) ==
    \E i \in 1..Len(s), j \in 1..Len(s) :
        /\ i + Len(StrKaraoke) <= j
        /\ SubSeq(s, i, i + Len(StrKaraoke) - 1) = StrKaraoke
        /\ j + Len(StrVersion) - 1 <= Len(s)
        /\ \A k \in (i + Len(StrKaraoke))..(j - 1) : s[k] = " "
        /\ SubSeq(s, j, j + Len(StrVersion) - 1) = StrVersion

\* re.search(r'soundtrack.*pt\.', s), names holding no newline
SearchSoundtrackPt(s, from) ==
    LET after == EndOfFirst(s, StrSoundtrack, from)
    IN  after # 0 /\ EndOfFirst(s, StrPtDot, after) # 0

\* re.search(r'original.*soundtrack.*pt\.', s)
SearchOriginalSoundtrackPt(s) ==
    LET after == EndOfFirst(s, StrOriginal, 1)
    IN  after # 0 /\ SearchSoundtrackPt(s, after)

\* HybridKpopCollector.is_valid_release_simple
is_valid_release_simple(release) ==
    LET name == release.name
        name_lower == LowerStr(name)
    IN  /\ release.total_tracks >= 4
        /\ Len(Strip(name)) >= 1
        /\ AlbumGroup(release) \notin {"compilation", "appears_on"}
        /\ Strip(name_lower) \notin {StrParenNull, StrNull, StrUndefined}
        /\ ~SearchKaraokeVersion(name_lower)
        /\ ~Contains(name_lower, StrParenKaraoke)
        /\ ~SearchSoundtrackPt(name_lower, 1)
        /\ ~SearchOriginalSoundtrackPt(name_lower)

\* HybridKpopCollector.is_primary_artist_album
is_primary_artist_album(album, target_artist_id) ==
    /\ album.artists # <<>>
    /\ album.artists[1].id = target_artist_id

\* search_albums_by_artist_id: valid_albums of a page (lines 489-494)
valid_primary_albums(page, artist_id) ==
    SelectSeq(page, LAMBDA album :
        /\ is_primary_artist_album(album, artist_id)
        /\ is_valid_release_simple(album))

\* the loop of process_existing_group_albums over the harvested albums
\* (lines 430-446)
RECURSIVE SaveAlbums(_, _, _, _, _)
SaveAlbums(as, harvested, group_data, t, newId) ==
    IF harvested = <<>> THEN [albums |-> as, nextId |-> newId]
    ELSE LET document == create_album_document(Head(harvested), group_data, t)
             r == save_or_update_album(as, document, t, newId)
         IN  SaveAlbums(r.albums, Tail(harvested), group_data, t,
                        IF r.action = "created" THEN newId + 1 ELSE newId)

\* HybridKpopCollector.is_album_by_artist
is_album_by_artist(album, target_artist) ==
    LET target_lower == Strip(LowerStr(target_artist))
    IN  \E i \in 1..Len(album.artists) :
            LET artist_name == Strip(LowerStr(album.artists[i].name))
            IN  \/ artist_name = target_lower
                \/ Contains(artist_name, target_lower)
                \/ Contains(target_lower, artist_name)

\* HybridKpopCollector.is_valid_spotify_album_only, called at line 134 and
\* defined nowhere in the scripts: the release classifier (track count >= 4,
\* non-empty name, no compilation / appears_on grouping, no placeholder name)
is_valid_spotify_album_only(album) == is_valid_release_simple(album)

\* search_albums_by_artist: valid_albums of a page (lines 130-135)
valid_named_albums(page, artist_name) ==
    SelectSeq(page, LAMBDA album :
        /\ is_album_by_artist(album, artist_name)
        /\ is_valid_spotify_album_only(album))

\* HybridKpopCollector.process_existing_group_albums at time t; page is what
\* /artists/{id}/albums lists, search_page what /search lists for the name
process_existing_group_albums(as, group_data, page, search_page, t, newId) ==
    LET harvested == IF group_data.spotifyId # ""
                     THEN valid_primary_albums(page, group_data.spotifyId)
                     ELSE valid_named_albums(search_page, group_data.name)
    IN  SaveAlbums(as, harvested, group_data, t, newId)

\* the store call of delete_group_and_albums that raises, if one does
StoreFailures == {"none", "delete_many", "delete_one"}

\* the two calls in the opposite order: the group first, then its albums
delete_group_and_albums_group_first(gs, as, group_id, raised) ==
    [groups |-> IF raised = "delete_one" THEN gs
                ELSE SelectSeq(gs, LAMBDA g : g._id # group_id),
     albums |-> IF raised # "none" THEN as
                ELSE SelectSeq(as, LAMBDA a : a.artistId # group_id)]

\* delete_group_and_albums: delete_many on the albums, then delete_one on the
\* group; an exception of either call ends the function (lines 929-930)
delete_group_and_albums(gs, as, group_id, raised) ==
    [groups |-> IF raised # "none" THEN gs
                ELSE SelectSeq(gs, LAMBDA g : g._id # group_id),
     albums |-> IF raised = "delete_many" THEN as
                ELSE SelectSeq(as, LAMBDA a : a.artistId # group_id)]

\* the answer of /artists/{id} to cleanup_invalid_spotify_artists: status 0
\* stands for a raised exception or an unusable token, is_kpop for the genre
\* test on a 200 body, name for the artist name it carries
ArtistResponse(status, is_kpop, name, retry_after) ==
    [status |-> status, is_kpop |-> is_kpop, name |-> name,
     retry_after |-> retry_after]

CleanupSleepCeiling == 300

\* one round of the loop of cleanup_invalid_spotify_artists (lines 819-892)
\* for a stored group and the provider's answer
cleanup_invalid_spotify_artist(gs, as, group, response, raised) ==
    LET kept == [groups |-> gs, albums |-> as]
        deleted == delete_group_and_albums(gs, as, group._id, raised)
        verdict ==
            IF response.status = 200
            THEN IF ~response.is_kpop THEN "not_kpop"
                 ELSE IF IsNameMismatch(
                             calculate_name_similarity(group.name, response.name))
                 THEN "name_mismatch"
                 ELSE "valid"
            ELSE IF response.status = 404 THEN "not_found"
            ELSE IF response.status = 429
            THEN IF response.retry_after <= CleanupSleepCeiling
                 THEN "rate_limit_wait" ELSE "rate_limit_skip"
            ELSE "error"
        store == IF verdict \in {"not_kpop", "name_mismatch", "not_found"}
                 THEN deleted ELSE kept
    IN  [groups |-> store.groups, albums |-> store.albums, verdict |-> verdict,
         slept |-> IF verdict = "rate_limit_wait" THEN response.retry_after
                   ELSE 0]

\* what a round of a collector pass leaves in the history
PassRecord(op, group, step, slept, deleted) ==
    [op |-> op, group |-> group._id, step |-> step, cause |-> "none",
     transient_only |-> FALSE, longest_sleep |-> slept, deleted |-> deleted]

CollectorPages == {<<>>, <<RelA>>}
CollectorSearchPages == {<<>>, <<RelFeat>>}

\* run_hybrid_collection calls process_existing_group_albums for a group that
\* get_all_existing_groups returned: find({}), every stored group
ProcessExistingGroupAlbums ==
    \E g \in 1..Len(groups), page \in CollectorPages,
       search_page \in CollectorSearchPages :
        \E r \in {process_existing_group_albums(albums, groups[g], page,
                                                search_page, now, nextAlbumId)} :
            /\ ListedFor(page, groups[g].spotifyId)
            /\ r.nextId <= MaxAlbumId + 1
            /\ albums' = r.albums
            /\ nextAlbumId' = r.nextId
            /\ last' = PassRecord("complete", groups[g], "harvested", 0, 0)
            /\ UNCHANGED <<groups, now, nextGroupId>>
            /\ UNCHANGED valVars
            /\ UNCHANGED mergeVars
            /\ UNCHANGED simVars
            /\ UNCHANGED procVars

CleanupResponses ==
    {ArtistResponse(200, TRUE, NameAb, 0), ArtistResponse(200, TRUE, <<"C">>, 0),
     ArtistResponse(200, FALSE, NameAb, 0), ArtistResponse(404, FALSE, <<>>, 0),
     ArtistResponse(429, FALSE, <<>>, 30), ArtistResponse(429, FALSE, <<>>, 700),
     ArtistResponse(500, FALSE, <<>>, 0), ArtistResponse(0, FALSE, <<>>, 0)}

\* a round of cleanup_invalid_spotify_artists for a group of
\* groups_with_spotify: every stored group with a non-empty spotifyId
CleanupInvalidSpotifyArtists ==
    \E g \in 1..Len(groups), response \in CleanupResponses,
       raised \in StoreFailures :
        /\ groups[g].spotifyId # ""
        /\ \E r \in {cleanup_invalid_spotify_artist(groups, albums, groups[g],
                                                    response, raised)} :
            /\ groups' = r.groups
            /\ albums' = r.albums
            /\ last' = PassRecord("cleanup", groups[g], r.verdict, r.slept,
                                  Len(albums) - Len(r.albums))
            /\ UNCHANGED <<now, nextGroupId, nextAlbumId>>
            /\ UNCHANGED valVars
            /\ UNCHANGED mergeVars
            /\ UNCHANGED simVars
            /\ UNCHANGED procVars

\* a group document as the scripts leave it in the store
StoredGroup(id, name, spotify_id, is_active, rate_limited, retry_after) ==
    [_id |-> id, name |-> name, spotifyId |-> spotify_id,
     socialLinks |-> SpotifyUrl(spotify_id),
     isActive |-> is_active, rateLimited |-> rate_limited,
     retryAfter |-> retry_after,
     rateLimitReason |-> IF rate_limited THEN StrRateLimiting ELSE <<>>,
     invalidReason |-> IF is_active THEN <<>> ELSE ReasonNotKpop,
     createdAt |-> 0, updatedAt |-> 0, lastValidated |-> 0]

\* the store before a run: one group that is active, or quarantined by the
\* rate-limit branch of mark_group_as_invalid with a window that ends at 0,
\* or made inactive by its other branch
LifecycleStores ==
    {<<StoredGroup(1, NameAb, "s1", TRUE, FALSE, NoTime)>>,
     <<StoredGroup(1, NameAb, "s1", TRUE, TRUE, 0)>>,
     <<StoredGroup(1, NameAb, "s1", FALSE, FALSE, NoTime)>>}

LifecycleInit ==
    /\ groups \in LifecycleStores
    /\ albums = <<>>
    /\ now = 0
    /\ nextGroupId = 2
    /\ nextAlbumId = 1
    /\ last = NoOp

InitLifecycle == LifecycleInit /\ ValIdle /\ MergeIdle /\ SimIdle /\ ProcIdle

LifecycleArtists == {ArtistS1}

NextLifecycle ==
    \/ Tick
    \/ SaveOrUpdateGroupFrom(LifecycleArtists)
    \/ CleanAlbumsForGroup
    \/ ProcessExistingGroupAlbums
    \/ CleanupInvalidSpotifyArtists

SpecLifecycle == InitLifecycle /\ [][NextLifecycle]_vars

\* a round of a pass that harvests, reconciles or revalidates
PassRound ==
    \/ CleanAlbumsForGroup
    \/ ProcessExistingGroupAlbums
    \/ CleanupInvalidSpotifyArtists

\* the releases the store holds for a group
ReleasesOf(as, group_id) == SelectSeq(as, LAMBDA a : a.artistId = group_id)

(***************************************************************************)
(* C11 as stated: a round of a harvesting or revalidation pass leaves      *)
(* every group alone that is inactive, or quarantined with a retryAfter    *)
(* that is not yet in the past: its record and its releases are the same   *)
(* after the round.                                                        *)
(***************************************************************************)
C11_IneligibleGroupUntouched ==
    [][PassRound =>
          \A i \in 1..Len(groups) :
              ~IsSelected(groups[i], now)
              => /\ \E j \in 1..Len(groups') : groups'[j] = groups[i]
                 /\ ReleasesOf(albums', groups[i]._id)
                        = ReleasesOf(albums, groups[i]._id)]_vars

FailedValidation == {"not_kpop", "name_mismatch", "not_found", "not_validated"}

\* a round of a revalidation pass: the collector's or the cleaner's
RevalidationRound == CleanupInvalidSpotifyArtists \/ CleanAlbumsForGroup

(***************************************************************************)
(* C13 as stated: when a revalidation round finds that an active group     *)
(* fails domain validation (no domain genre, name similarity below 0.6, or *)
(* 404), the group's record is still in the store after the round and is   *)
(* inactive.                                                               *)
(***************************************************************************)
C13_FailedValidationRetainsGroup ==
    [][RevalidationRound /\ last'.step \in FailedValidation
          => \A i \in 1..Len(groups) :
                 /\ groups[i]._id = last'.group
                 /\ groups[i].isActive
                 /\ ~groups[i].rateLimited
                 => \E j \in 1..Len(groups') :
                        /\ groups'[j]._id = groups[i]._id
                        /\ ~groups'[j].isActive]_vars

(***************************************************************************)
(* C14 as stated: when a pass selects a quarantined group whose retry      *)
(* window has expired and re-validates it successfully, the group's record *)
(* carries no quarantine marker after the pass.                            *)
(***************************************************************************)
C14_RevalidatedLeavesQuarantine ==
    [][CleanAlbumsForGroup /\ last'.step = "cleaned"
          => \A i \in 1..Len(groups) :
                 /\ groups[i]._id = last'.group
                 /\ groups[i].rateLimited
                 /\ groups[i].retryAfter < now
                 => \A j \in 1..Len(groups') :
                        groups'[j]._id = groups[i]._id
                        => ~groups'[j].rateLimited]_vars

(***************************************************************************)
(* SpecCompletion: completion passes of both scripts over one active group *)
(* whose provider lists an 8-track release, a 5-track release and, through *)
(* the search endpoint, a 3-track release credited to the same artist.     *)
(***************************************************************************)
MaxReleaseId == 4

RelMini == [id |-> "a5", name |-> <<"D">>, total_tracks |-> 5,
            release_date |-> <<2022>>, album_type |-> "single",
            artists |-> <<ArtistS1>>]
RelSingle == [id |-> "a6", name |-> <<"E">>, total_tracks |-> 3,
              release_date |-> <<2023>>, album_type |-> "single",
              artists |-> <<ArtistS1>>]

CompletionOfficialPages == {<<>>, <<RelA>>, <<RelMini>>, <<RelA, RelMini>>}
CompletionSearchPages == {<<>>, <<RelSingle>>}

\* clean_albums_for_group for a selected group, the provider serving these
\* pages
CleanPassServing(official_page, search_page) ==
    \E g \in 1..Len(groups), outcome \in ValidateOutcomes :
        /\ IsSelected(groups[g], now)
        /\ ListedFor(official_page, extract_spotify_id_from_group(groups[g]))
        /\ \E r \in {clean_albums_for_group(groups, albums, groups[g], outcome,
                                            official_page, search_page, now,
                                            nextAlbumId)} :
            /\ r.nextId <= MaxReleaseId + 1
            /\ groups' = r.groups
            /\ albums' = r.albums
            /\ nextAlbumId' = r.nextId
            /\ last' = r.last
            /\ UNCHANGED <<now, nextGroupId>>
            /\ UNCHANGED valVars
            /\ UNCHANGED mergeVars
            /\ UNCHANGED simVars
            /\ UNCHANGED procVars

\* process_existing_group_albums for a stored group, the provider serving
\* these pages
CollectorPassServing(page, search_page) ==
    \E g \in 1..Len(groups) :
        \E r \in {process_existing_group_albums(albums, groups[g], page,
                                                search_page, now, nextAlbumId)} :
            /\ ListedFor(page, groups[g].spotifyId)
            /\ r.nextId <= MaxReleaseId + 1
            /\ albums' = r.albums
            /\ nextAlbumId' = r.nextId
            /\ last' = PassRecord("complete", groups[g], "harvested", 0, 0)
            /\ UNCHANGED <<groups, now, nextGroupId>>
            /\ UNCHANGED valVars
            /\ UNCHANGED mergeVars
            /\ UNCHANGED simVars
            /\ UNCHANGED procVars

CompletionByCleaner ==
    \E official_page \in CompletionOfficialPages,
       search_page \in CompletionSearchPages :
        CleanPassServing(official_page, search_page)

CompletionByCollector ==
    \E page \in CompletionOfficialPages, search_page \in CompletionSearchPages :
        CollectorPassServing(page, search_page)

CompletionInit ==
    /\ groups = <<StoredGroup(1, NameAb, "s1", TRUE, FALSE, NoTime)>>
    /\ albums = <<>>
    /\ now = 0
    /\ nextGroupId = 2
    /\ nextAlbumId = 1
    /\ last = NoOp

InitCompletion == CompletionInit /\ ValIdle /\ MergeIdle /\ SimIdle /\ ProcIdle

NextCompletion ==
    \/ Tick
    \/ CompletionByCleaner
    \/ CompletionByCollector

SpecCompletion == InitCompletion /\ [][NextCompletion]_vars

(***************************************************************************)
(* C17 as stated: every stored release has a track count of at least 4.    *)
(***************************************************************************)
C17_NoShortReleaseStored ==
    \A i \in 1..Len(albums) : albums[i].totalTracks >= 4

(***************************************************************************)
(* C18 as stated: the kind stored for a release is the one its track count *)
(* gives: album from 8 tracks, ep from 4 to 7, single below.               *)
(***************************************************************************)
C18_KindFromTrackCount ==
    \A i \in 1..Len(albums) :
        albums[i].albumType = FinalAlbumType(albums[i].totalTracks)

\* a completion pass that harvested, the provider serving the listing of the
\* example: 8 and 5 tracks authoritative, 3 tracks by the same artist found
\* by search
ExamplePass ==
    \/ CleanPassServing(<<RelA, RelMini>>, <<RelSingle>>) /\ last'.step = "cleaned"
    \/ CollectorPassServing(<<RelA, RelMini>>, <<RelSingle>>)

\* the kinds of the releases stored for a group, as a bag
KindsOf(as, group_id) ==
    LET mine == ReleasesOf(as, group_id)
    IN  [kind \in {"album", "ep", "single"} |->
            Cardinality({i \in 1..Len(mine) : mine[i].albumType = kind})]

(***************************************************************************)
(* C19 as stated: for a group with no stored release, one completion pass  *)
(* over the listing of the example leaves exactly two releases stored for  *)
(* the group, one album and one ep; the 3-track item is not stored.        *)
(***************************************************************************)
C19_ExampleStoresAlbumAndEp ==
    [][ExamplePass /\ ReleasesOf(albums, last'.group) = <<>>
          => /\ Len(ReleasesOf(albums', last'.group)) = 2
             /\ KindsOf(albums', last'.group)
                    = [kind \in {"album", "ep", "single"} |->
                          IF kind = "single" THEN 0 ELSE 1]
             /\ \A i \in 1..Len(albums') : albums'[i].totalTracks # 3]_vars

(***************************************************************************)
(* C20 as stated: no two stored releases share a spotifyId, and among the  *)
(* releases without spotifyId no two share the group and the name, case    *)
(* ignored.                                                                *)
(***************************************************************************)
C20_ReleaseIdentityUnique ==
    \A i, j \in 1..Len(albums) :
        i # j
        => /\ albums[i].spotifyId # ""
              => albums[i].spotifyId # albums[j].spotifyId
           /\ albums[i].spotifyId = "" /\ albums[j].spotifyId = ""
              => \/ albums[i].artistId # albums[j].artistId
                 \/ LowerStr(albums[i].name) # LowerStr(albums[j].name)

(***************************************************************************)
(* C21 as stated: after every operation, each stored release refers to a   *)
(* group record of the store; a deletion of a group leaves none of its     *)
(* releases behind, whichever of its two store calls fails.                *)
(***************************************************************************)
C21_NoReleaseOutlivesGroup ==
    \A i \in 1..Len(albums) :
        \E g \in 1..Len(groups) : groups[g]._id = albums[i].artistId

\* a revalidation round has deleted a group that owned releases
C21_Witness ==
    /\ last.op = "cleanup"
    /\ last.deleted > 0
    /\ \A g \in 1..Len(groups) : groups[g]._id # last.group

(***************************************************************************)
(* SpecToken: the token manager of both scripts, one call per step.        *)
(***************************************************************************)
RefreshMargin == 300
MaxTokenId == 2

\* the answer of the token endpoint: status 0 stands for an exception of
\* requests.post, NoField for a key the JSON body lacks
TokenResponse(status, access_token, expires_in) ==
    [status |-> status, access_token |-> access_token,
     expires_in |-> expires_in]

ExpiresIn == {300, 301, 302}

TokenResponses ==
    {TokenResponse(200, a, e) : a \in 0..MaxTokenId, e \in ExpiresIn}
        \cup {TokenResponse(200, 1, NoField), TokenResponse(200, NoField, 301),
              TokenResponse(401, NoField, NoField),
              TokenResponse(0, NoField, NoField)}

\* get_spotify_token at time t: the fields of self after the call, its
\* return value and the number of requests to the token endpoint
get_spotify_token(token, expires, t, response) ==
    IF response.status = 200
    THEN IF response.access_token = NoField
         THEN [token |-> token, expires |-> expires, ret |-> FALSE,
               exchanges |-> 1]
         ELSE IF response.expires_in = NoField
         THEN [token |-> response.access_token, expires |-> expires,
               ret |-> FALSE, exchanges |-> 1]
         ELSE [token |-> response.access_token,
               expires |-> t + response.expires_in, ret |-> TRUE,
               exchanges |-> 1]
    ELSE [token |-> token, expires |-> expires, ret |-> FALSE, exchanges |-> 1]

\* the test of refresh_spotify_token_if_needed without its margin
refresh_spotify_token_if_needed_no_margin(token, expires, t, response) ==
    IF token = NoToken \/ t >= expires
    THEN get_spotify_token(token, expires, t, response)
    ELSE [token |-> token, expires |-> expires, ret |-> TRUE, exchanges |-> 0]

\* refresh_spotify_token_if_needed at time t; response is what the token
\* endpoint answers if it is asked
refresh_spotify_token_if_needed(token, expires, t, response) ==
    IF token = NoToken \/ t >= expires - RefreshMargin
    THEN get_spotify_token(token, expires, t, response)
    ELSE [token |-> token, expires |-> expires, ret |-> TRUE, exchanges |-> 0]

\* what a call that asked for the token leaves in the history
TokenCall(op, refreshed, response, result) ==
    [op |-> op, ret |-> refreshed.ret, exchanges |-> refreshed.exchanges,
     response |-> response, result |-> result]

\* a caller of the scripts calls refresh_spotify_token_if_needed
RefreshSpotifyTokenIfNeeded ==
    \E response \in TokenResponses :
        \E r \in {refresh_spotify_token_if_needed(
                      spotify_token, spotify_token_expires, now, response)} :
            /\ spotify_token' = r.token
            /\ spotify_token_expires' = r.expires
            /\ token_call' = TokenCall("refresh", r, response, <<>>)
            /\ UNCHANGED <<run, fetch, classify>>
            /\ UNCHANGED storeVars
            /\ UNCHANGED valVars
            /\ UNCHANGED mergeVars
            /\ UNCHANGED simVars

\* HybridKpopCollector.search_albums_by_artist: the returned list; page is
\* what /search answers
search_albums_by_artist(refreshed, page, artist_name) ==
    IF ~refreshed.ret THEN <<>> ELSE valid_named_albums(page, artist_name)

TokenSearchPages == {<<>>, <<RelA>>}

SearchAlbumsByArtist ==
    \E response \in TokenResponses, page \in TokenSearchPages :
        \E r \in {refresh_spotify_token_if_needed(
                      spotify_token, spotify_token_expires, now, response)} :
            /\ spotify_token' = r.token
            /\ spotify_token_expires' = r.expires
            /\ token_call' = TokenCall("search_albums_by_artist", r, response,
                                       search_albums_by_artist(r, page, NameAb))
            /\ UNCHANGED <<run, fetch, classify>>
            /\ UNCHANGED storeVars
            /\ UNCHANGED valVars
            /\ UNCHANGED mergeVars
            /\ UNCHANGED simVars

\* the object after __init__: token 1 obtained at time 0
TokenInit ==
    /\ spotify_token = 1
    /\ spotify_token_expires \in ExpiresIn
    /\ token_call = NoCall

InitToken ==
    StoreInit /\ ValIdle /\ MergeIdle /\ SimIdle /\ TokenInit /\ RunIdle /\ FetchIdle
        /\ ClassifyIdle

NextToken ==
    \/ Tick
    \/ RefreshSpotifyTokenIfNeeded
    \/ SearchAlbumsByArtist

SpecToken == InitToken /\ [][NextToken]_vars

\* a step that is a call of refresh_spotify_token_if_needed, by itself or at
\* the head of a caller
TokenStep == RefreshSpotifyTokenIfNeeded \/ SearchAlbumsByArtist

(***************************************************************************)
(* C22 as stated: a call returns the cached credential without a request   *)
(* to the token endpoint exactly when a credential is cached and more than *)
(* 300 s remain before its expiry; otherwise it makes exactly one exchange *)
(* and, when that succeeds, the cached credential and its expiry are the   *)
(* ones of the answer.                                                     *)
(***************************************************************************)
C22_RefreshOnlyWhenNeeded ==
    [][TokenStep =>
          IF spotify_token # NoToken
             /\ spotify_token_expires - now > 300
          THEN /\ token_call'.exchanges = 0
               /\ token_call'.ret
               /\ spotify_token' = spotify_token
               /\ spotify_token_expires' = spotify_token_expires
          ELSE /\ token_call'.exchanges = 1
               /\ token_call'.ret
                  => /\ spotify_token' = token_call'.response.access_token
                     /\ spotify_token_expires'
                            = now + token_call'.response.expires_in]_vars

\* a call found the credential with exactly 300 s left and exchanged it
C22_Witness ==
    /\ token_call.op = "refresh"
    /\ token_call.exchanges = 1
    /\ token_call.ret
    /\ spotify_token = 2
    /\ spotify_token_expires = now + 302
    /\ now = 1

(***************************************************************************)
(* C23 as stated: a call whose credential exchange failed made one         *)
(* exchange only, and what it returns to its caller is not what a          *)
(* successful call that found nothing returns (the empty list).            *)
(***************************************************************************)
C23_AuthFailureDistinguishable ==
    token_call.op = "search_albums_by_artist" /\ ~token_call.ret
    => /\ token_call.exchanges = 1
       /\ token_call.result # <<>>

(***************************************************************************)
(* The orchestration: main of each script and the phase loops it runs.     *)
(* run.pc is the loop (or the menu) control is in, run.enumerated the list *)
(* the loop iterates over, run.visited the units whose iteration has       *)
(* begun, run.todo the units still ahead.  run.failed, run.limited and     *)
(* run.write_failed are positions in run.visited: the units whose          *)
(* iteration raised, met a rate limit beyond the ceiling, or could not     *)
(* write the group.  run.trace lists the phases that changed the store, in *)
(* the order of their first change after another phase's.  An action is    *)
(* one iteration of a loop, or the code between two loops.                 *)
(***************************************************************************)
\* what can go wrong in an iteration: the group write reports failure
\* (save_or_update_group returns False), or an exception reaches the loop
UnitFailures == {"none", "store_write", "unexpected"}

\* the loop bookkeeping of an iteration that stops the loop when the unit
\* raised
after_unit_abort_on_failure(r, raised) ==
    [r EXCEPT !.visited = Append(@, Head(r.todo)),
              !.todo = IF raised THEN <<>> ELSE Tail(@),
              !.failed = IF raised THEN @ \cup {Len(r.visited) + 1} ELSE @]

\* the loop bookkeeping of an iteration: "except Exception" logs, counts
\* and the for statement takes the next unit
after_unit(r, raised) ==
    [r EXCEPT !.visited = Append(@, Head(r.todo)),
              !.todo = Tail(@),
              !.failed = IF raised THEN @ \cup {Len(r.visited) + 1} ELSE @]

\* a phase's change of the store enters the trace
Mark(trace, phase, mutated) ==
    IF ~mutated \/ (trace # <<>> /\ trace[Len(trace)] = phase) THEN trace
    ELSE Append(trace, phase)

\* a loop starts over a fresh enumeration
Enumerate(r, pc, units) ==
    [r EXCEPT !.pc = pc, !.enumerated = units, !.visited = <<>>,
              !.todo = units, !.failed = {}, !.limited = {},
              !.write_failed = {}]

\* HybridKpopCollector.cleanup_old_data, its delete_many
IsPlaceholderName(name) ==
    Strip(LowerStr(name)) \in {StrParenNull, StrNull, StrUndefined}

cleanup_old_data(as) == SelectSeq(as, LAMBDA a : ~IsPlaceholderName(a.name))

\* discover_new_kpop_artists for the artists the provider's searches return
\* and the classifier accepts (found, most popular first, one per id): the
\* filter of search_kpop_artists_discovery against the cache that
\* load_existing_groups_cache filled from gs
discover_new_kpop_artists(gs, found) ==
    SelectSeq(found, LAMBDA artist :
        /\ \A i \in 1..Len(gs) : gs[i].spotifyId # artist.id
        /\ \A i \in 1..Len(gs) :
               Strip(LowerStr(gs[i].name)) # Strip(LowerStr(artist.name)))

\* process_artist_complete without the return of line 357: the albums are
\* searched although no group was saved, and each album fails on the missing
\* group
process_artist_complete_without_return(gs, as, spotify_artist, failure, page, t, newGroupId, newAlbumId) ==
    LET found == search_albums_by_artist([ret |-> TRUE], page,
                                         spotify_artist.name)
    IN  IF failure # "none"
        THEN [groups |-> gs, albums |-> as, nextGroupId |-> newGroupId,
              nextAlbumId |-> newAlbumId, group_action |-> "error",
              stats |-> Stats("error", Len(found), 0, 0, Len(found))]
        ELSE LET saved == save_or_update_group(
                              gs, create_group_document(spotify_artist, t), t,
                              newGroupId)
                 final_group ==
                     saved.groups[CHOOSE i \in 1..Len(saved.groups) :
                                      saved.groups[i]._id = saved.id]
                 r == SaveAlbums(as, found, final_group, t, newAlbumId)
             IN  [groups |-> saved.groups, albums |-> r.albums,
                  nextGroupId |-> IF saved.action = "created" THEN newGroupId + 1
                                  ELSE newGroupId,
                  nextAlbumId |-> r.nextId, group_action |-> saved.action,
                  stats |-> Stats(saved.action, Len(found),
                                  r.nextId - newAlbumId,
                                  Len(found) - (r.nextId - newAlbumId), 0)]

\* HybridKpopCollector.process_artist_complete at time t; page is what the
\* provider's search lists for the artist's name, failure what building or
\* saving the group document raises
process_artist_complete(gs, as, spotify_artist, failure, page, t, newGroupId, newAlbumId) ==
    IF failure # "none"
    THEN [groups |-> gs, albums |-> as, nextGroupId |-> newGroupId,
          nextAlbumId |-> newAlbumId, group_action |-> "failed",
          stats |-> Stats("failed", 0, 0, 0, 0)]
    ELSE LET saved == save_or_update_group(
                          gs, create_group_document(spotify_artist, t), t,
                          newGroupId)
             final_group ==
                 saved.groups[CHOOSE i \in 1..Len(saved.groups) :
                                  saved.groups[i]._id = saved.id]
             \* the token of a run is valid: no exchange, the refresh is True
             found == search_albums_by_artist([ret |-> TRUE], page,
                                              spotify_artist.name)
             r == SaveAlbums(as, found, final_group, t, newAlbumId)
         IN  [groups |-> saved.groups, albums |-> r.albums,
              nextGroupId |-> IF saved.action = "created" THEN newGroupId + 1
                              ELSE newGroupId,
              nextAlbumId |-> r.nextId, group_action |-> saved.action,
              stats |-> Stats(saved.action, Len(found),
                              r.nextId - newAlbumId,
                              Len(found) - (r.nextId - newAlbumId), 0)]

\* get_all_existing_groups, and the projection of every find of the scripts
Projection(gs) ==
    [i \in 1..Len(gs) |->
        [_id |-> gs[i]._id, name |-> gs[i].name, spotifyId |-> gs[i].spotifyId]]

\* the accepted artists the provider's discovery searches return
RunFound ==
    {<<>>, <<ArtistS1>>, <<ArtistS2>>, <<ArtistS1, ArtistS2>>,
     <<ArtistS1, ArtistS2Similar>>}

\* main, choice "1": run_hybrid_collection up to the first iteration of
\* phase 1 (lines 716-741)
RunHybridCollection ==
    \E found \in RunFound :
        /\ run.pc = "idle" /\ run.script = "collector"
        /\ albums' = cleanup_old_data(albums)
        /\ run' = [Enumerate(run, "phase1",
                             discover_new_kpop_artists(groups, found))
                     EXCEPT !.choice = "1",
                            !.trace = Mark(@, "cleanup", albums' # albums)]
        /\ UNCHANGED <<groups, now, nextGroupId, nextAlbumId, last>>
        /\ UNCHANGED <<tokenVars, fetch, classify>>
        /\ UNCHANGED valVars
        /\ UNCHANGED mergeVars
        /\ UNCHANGED simVars

\* one iteration of the phase 1 loop (lines 743-764)
Phase1Unit ==
    \E failure \in UnitFailures, page \in TokenSearchPages :
        /\ run.pc = "phase1" /\ run.todo # <<>>
        /\ \E r \in {process_artist_complete(
                         groups, albums, Head(run.todo),
                         IF failure = "unexpected" THEN "store_write" ELSE failure,
                         page, now, nextGroupId, nextAlbumId)} :
            /\ r.nextAlbumId <= MaxAlbumId + 1
            /\ Len(r.groups) <= MaxGroups
            /\ groups' = r.groups
            /\ albums' = r.albums
            /\ nextGroupId' = r.nextGroupId
            /\ nextAlbumId' = r.nextAlbumId
            /\ run' = [after_unit(run, failure = "unexpected")
                         EXCEPT !.write_failed =
                                    IF failure = "none" THEN @
                                    ELSE @ \cup {Len(run.visited) + 1},
                                !.trace = Mark(@, "discovery",
                                               r.groups # groups
                                                   \/ r.albums # albums),
                                !.stats = r.stats]
        /\ UNCHANGED <<now, last>>
        /\ UNCHANGED <<tokenVars, fetch, classify>>
        /\ UNCHANGED valVars
        /\ UNCHANGED mergeVars
        /\ UNCHANGED simVars

\* between the loops: existing_groups = get_all_existing_groups()
\* (lines 768-776)
Phase2Start ==
    /\ run.pc = "phase1" /\ run.todo = <<>>
    /\ run' = Enumerate(run, "phase2", Projection(groups))
    /\ UNCHANGED storeVars
    /\ UNCHANGED <<tokenVars, fetch, classify>>
    /\ UNCHANGED valVars
    /\ UNCHANGED mergeVars
    /\ UNCHANGED simVars

\* one iteration of the phase 2 loop (lines 778-796)
Phase2Unit ==
    \E raised \in BOOLEAN, page \in CollectorPages,
       search_page \in CollectorSearchPages :
        /\ run.pc = "phase2" /\ run.todo # <<>>
        /\ ListedFor(page, Head(run.todo).spotifyId)
        /\ \E r \in {IF raised THEN [albums |-> albums, nextId |-> nextAlbumId]
                     ELSE process_existing_group_albums(
                              albums, Head(run.todo), page, search_page, now,
                              nextAlbumId)} :
            /\ r.nextId <= MaxAlbumId + 1
            /\ albums' = r.albums
            /\ nextAlbumId' = r.nextId
            /\ run' = [after_unit(run, raised)
                         EXCEPT !.trace = Mark(@, "completion",
                                               r.albums # albums)]
        /\ UNCHANGED <<groups, now, nextGroupId, last>>
        /\ UNCHANGED <<tokenVars, fetch, classify>>
        /\ UNCHANGED valVars
        /\ UNCHANGED mergeVars
        /\ UNCHANGED simVars

\* after the loops run_hybrid_collection returns global_stats and main
\* prints its counters (lines 798-802, 996-1016)
CollectionReturns ==
    /\ run.pc = "phase2" /\ run.todo = <<>>
    /\ run' = [run EXCEPT !.pc = "menu", !.report = "stats", !.emitted = TRUE]
    /\ UNCHANGED storeVars
    /\ UNCHANGED <<tokenVars, fetch, classify>>
    /\ UNCHANGED valVars
    /\ UNCHANGED mergeVars
    /\ UNCHANGED simVars

\* main, choice "2": cleanup_invalid_spotify_artists up to the first
\* iteration (lines 809-817); groups_with_spotify is its find
CleanupStart ==
    /\ run.pc = "idle" /\ run.script = "collector"
    /\ run' = [Enumerate(run, "cleanup",
                         SelectSeq(Projection(groups),
                                   LAMBDA g : g.spotifyId # ""))
                 EXCEPT !.choice = "2"]
    /\ UNCHANGED storeVars
    /\ UNCHANGED <<tokenVars, fetch, classify>>
    /\ UNCHANGED valVars
    /\ UNCHANGED mergeVars
    /\ UNCHANGED simVars

\* one iteration of the loop of cleanup_invalid_spotify_artists
\* (lines 819-892); status 0 is an exception of the request or a token
\* that could not be refreshed, both end the iteration with "continue"
CleanupUnit ==
    \E response \in CleanupResponses, raised \in StoreFailures :
        /\ run.pc = "cleanup" /\ run.todo # <<>>
        /\ \E r \in {cleanup_invalid_spotify_artist(
                         groups, albums, Head(run.todo), response, raised)} :
            /\ groups' = r.groups
            /\ albums' = r.albums
            /\ last' = PassRecord("cleanup", Head(run.todo), r.verdict, r.slept,
                                  Len(albums) - Len(r.albums))
            /\ run' = [after_unit(run, response.status = 0)
                         EXCEPT !.limited =
                                    IF r.verdict = "rate_limit_skip"
                                    THEN @ \cup {Len(run.visited) + 1} ELSE @,
                                !.trace = Mark(@, "cleanup",
                                               r.groups # groups
                                                   \/ r.albums # albums)]
        /\ UNCHANGED <<now, nextGroupId, nextAlbumId>>
        /\ UNCHANGED <<tokenVars, fetch, classify>>
        /\ UNCHANGED valVars
        /\ UNCHANGED mergeVars
        /\ UNCHANGED simVars

\* the loop is over and the function ends without a return statement: the
\* caller receives None, cleanup_stats.get raises AttributeError, main's
\* "except Exception" logs it and "finally" closes the client
\* (lines 892-896, 1018-1027, 1069-1076)
CleanupReturns ==
    /\ run.pc = "cleanup" /\ run.todo = <<>>
    /\ run' = [run EXCEPT !.pc = "ended", !.report = "none",
                          !.client_open = FALSE]
    /\ UNCHANGED storeVars
    /\ UNCHANGED <<tokenVars, fetch, classify>>
    /\ UNCHANGED valVars
    /\ UNCHANGED mergeVars
    /\ UNCHANGED simVars

\* main, choice "4" after an option has run: break, then "finally"
Quit ==
    /\ run.pc = "menu"
    /\ run' = [run EXCEPT !.pc = "ended", !.client_open = FALSE]
    /\ UNCHANGED storeVars
    /\ UNCHANGED <<tokenVars, fetch, classify>>
    /\ UNCHANGED valVars
    /\ UNCHANGED mergeVars
    /\ UNCHANGED simVars

\* Ctrl-C reaches a loop either while an iteration works on its unit
\* (in_flight), which then stays unfinished, or in the pause that ends the
\* iteration of the last visited unit
Interrupted(r, in_flight) ==
    [r EXCEPT !.interrupted = TRUE,
              !.visited = IF in_flight THEN Append(@, Head(r.todo)) ELSE @,
              !.todo = IF in_flight THEN Tail(@) ELSE @,
              !.abandoned = in_flight]

\* Ctrl-C in a collector loop:
\* KeyboardInterrupt is no Exception, so it leaves the iteration, the loop
\* and the function, and main prints its notice and closes the client
\* (lines 1066-1076)
InterruptCollector ==
    \E in_flight \in BOOLEAN :
        /\ run.script = "collector"
        /\ run.pc \in {"phase1", "phase2", "cleanup"}
        /\ in_flight => run.todo # <<>>
        /\ ~in_flight => run.visited # <<>>
        /\ run' = [Interrupted(run, in_flight)
                     EXCEPT !.pc = "ended", !.client_open = FALSE]
    /\ UNCHANGED storeVars
    /\ UNCHANGED <<tokenVars, fetch, classify>>
    /\ UNCHANGED valVars
    /\ UNCHANGED mergeVars
    /\ UNCHANGED simVars

\* the cleaner stops its loop once more than this many groups came out
\* inactive with the rateLimited mark (line 906)
RateLimitedAbort == 10

\* main of the cleaner, choice "1" or "3" (confirmed): the start of
\* clean_all_groups_from_database (lines 879-896)
CleanAllGroupsStart ==
    \E choice \in {"1", "3"} :
        /\ run.pc = "idle" /\ run.script = "cleaner"
        /\ run' = [Enumerate(run, "cleaning",
                             SelectSeq(groups, LAMBDA g : IsSelected(g, now)))
                     EXCEPT !.choice = choice]
        /\ UNCHANGED storeVars
        /\ UNCHANGED <<tokenVars, fetch, classify>>
        /\ UNCHANGED valVars
        /\ UNCHANGED mergeVars
        /\ UNCHANGED simVars

\* the counters of the loop after clean_albums_for_group returned
\* (lines 914-926): updated_group is the group re-read from gs
rate_limited_after(count, gs, group_id) ==
    LET i == FindOne({k \in 1..Len(gs) : gs[k]._id = group_id})
    IN  IF i # 0 /\ ~gs[i].isActive /\ gs[i].rateLimited THEN count + 1
        ELSE count

\* one iteration of the loop of clean_all_groups_from_database
\* (lines 898-946)
CleaningUnit ==
    \E outcome \in ValidateOutcomes, official_page \in OfficialPages,
       search_page \in SearchPages, raised \in BOOLEAN :
        /\ run.pc = "cleaning" /\ run.todo # <<>>
        /\ ListedFor(official_page, extract_spotify_id_from_group(Head(run.todo)))
        /\ IF run.rate_limited_count > RateLimitedAbort
           THEN /\ run' = [run EXCEPT !.todo = <<>>, !.aborted = TRUE]
                /\ UNCHANGED storeVars
           ELSE \E r \in {IF raised
                          THEN [groups |-> groups, albums |-> albums,
                                nextId |-> nextAlbumId, last |-> last]
                          ELSE clean_albums_for_group(
                                   groups, albums, Head(run.todo), outcome,
                                   official_page, search_page, now,
                                   nextAlbumId)} :
                    /\ r.nextId <= MaxAlbumId + 1
                    /\ groups' = r.groups
                    /\ albums' = r.albums
                    /\ nextAlbumId' = r.nextId
                    /\ last' = r.last
                    /\ run' = [after_unit(run, raised)
                                 EXCEPT !.rate_limited_count =
                                            IF raised THEN @
                                            ELSE rate_limited_after(
                                                     @, r.groups,
                                                     Head(run.todo)._id),
                                        !.limited =
                                            IF ~raised
                                               /\ r.last.cause = "rate_limit_extreme"
                                            THEN @ \cup {Len(run.visited) + 1}
                                            ELSE @,
                                        !.trace =
                                            Mark(@, IF ~raised /\ r.last.step = "cleaned"
                                                    THEN "completion" ELSE "cleanup",
                                                 r.groups # groups \/ r.albums # albums)]
                    /\ UNCHANGED <<now, nextGroupId>>
        /\ UNCHANGED <<tokenVars, fetch, classify>>
        /\ UNCHANGED valVars
        /\ UNCHANGED mergeVars
        /\ UNCHANGED simVars

\* where main goes when clean_all_groups_from_database is over: to the
\* discovery of choice "3", or to its end and "finally" (lines 1047-1068)
AfterCleaning(r) ==
    IF r.choice = "3" THEN [r EXCEPT !.pc = "discover"]
    ELSE [r EXCEPT !.pc = "ended", !.client_open = FALSE]

\* the loop is over: the statistics are logged, unless the function returned
\* early for want of groups (lines 881-883, 948-957)
CleaningReturns ==
    /\ run.pc = "cleaning" /\ run.todo = <<>>
    /\ run' = AfterCleaning([run EXCEPT !.emitted = run.enumerated # <<>>])
    /\ UNCHANGED storeVars
    /\ UNCHANGED <<tokenVars, fetch, classify>>
    /\ UNCHANGED valVars
    /\ UNCHANGED mergeVars
    /\ UNCHANGED simVars

\* Ctrl-C in the cleaner's loop: "except KeyboardInterrupt: break", the
\* statistics are logged and main goes on (lines 940-942)
InterruptCleaner ==
    \E in_flight \in BOOLEAN :
        /\ run.pc = "cleaning"
        /\ in_flight => run.todo # <<>>
        /\ ~in_flight => run.visited # <<>>
        /\ run' = AfterCleaning([Interrupted(run, in_flight)
                                   EXCEPT !.emitted = TRUE])
        /\ UNCHANGED storeVars
        /\ UNCHANGED <<tokenVars, fetch, classify>>
        /\ UNCHANGED valVars
        /\ UNCHANGED mergeVars
        /\ UNCHANGED simVars

\* main of the cleaner, choice "2" or the second half of choice "3":
\* discover_and_add_new_kpop_artists, then the end of main and "finally"
\* (lines 1049-1068)
DiscoverAndAddNewKpopArtists ==
    \E discovered_artists \in RunFound :
        /\ run.script = "cleaner"
        /\ run.pc \in {"idle", "discover"}
        /\ \E r \in {add_discovered_artists_to_database(
                         groups, discovered_artists, now, nextGroupId)} :
            /\ Len(r.groups) <= MaxGroups
            /\ groups' = r.groups
            /\ nextGroupId' = r.nextId
            /\ run' = [run EXCEPT
                          !.pc = "ended",
                          !.choice = IF run.pc = "idle" THEN "2" ELSE @,
                          !.client_open = FALSE,
                          !.started_after_interrupt =
                              run.interrupted /\ r.groups # groups,
                          !.trace = Mark(@, "discovery", r.groups # groups)]
        /\ UNCHANGED <<albums, now, nextAlbumId, last>>
        /\ UNCHANGED <<tokenVars, fetch, classify>>
        /\ UNCHANGED valVars
        /\ UNCHANGED mergeVars
        /\ UNCHANGED simVars

\* the stores a script is started on: empty, or groups that an earlier run
\* of the collector created
RunStores ==
    {<<>>,
     <<StoredGroup(1, NameAb, "s1", TRUE, FALSE, NoTime)>>,
     <<StoredGroup(1, NameAb, "s1", TRUE, FALSE, NoTime),
       StoredGroup(2, <<"C">>, "s2", TRUE, FALSE, NoTime)>>}

RunInit ==
    /\ groups \in RunStores
    /\ albums = <<>>
    /\ now = 0
    /\ nextGroupId = Len(groups) + 1
    /\ nextAlbumId = 1
    /\ last = NoOp
    /\ run \in {[NoRun EXCEPT !.script = script] :
                   script \in {"collector", "cleaner"}}

InitRun ==
    RunInit /\ ValIdle /\ MergeIdle /\ SimIdle /\ TokenIdle /\ FetchIdle
        /\ ClassifyIdle

NextRun ==
    \/ RunHybridCollection
    \/ Phase1Unit
    \/ Phase2Start
    \/ Phase2Unit
    \/ CollectionReturns
    \/ CleanupStart
    \/ CleanupUnit
    \/ CleanupReturns
    \/ Quit
    \/ InterruptCollector
    \/ CleanAllGroupsStart
    \/ CleaningUnit
    \/ CleaningReturns
    \/ InterruptCleaner
    \/ DiscoverAndAddNewKpopArtists

SpecRun == InitRun /\ [][NextRun]_vars

(***************************************************************************)
(* C24: failure isolation.  When the processing of one unit (an artist in  *)
(* phase 1, a group in phase 2, a group in the revalidation loops) fails   *)
(* unexpectedly, the loop goes on with the next unit: in a run that was    *)
(* neither interrupted nor stopped by the rate-limit abort, the units      *)
(* visited and the units still ahead are together the whole enumeration,   *)
(* so a loop that has ended has visited every unit.                        *)
(***************************************************************************)
C24_FailureIsolation ==
    (run.pc # "idle" /\ ~run.interrupted /\ ~run.aborted)
        => run.enumerated = run.visited \o run.todo

\* a loop has ended in which a unit failed and the unit after it was visited
C24_Witness ==
    /\ ~run.interrupted /\ ~run.aborted
    /\ run.todo = <<>>
    /\ \E i \in run.failed : i < Len(run.visited) /\ i + 1 \notin run.failed

(***************************************************************************)
(* C25 as stated: when a unit meets a rate limit beyond the safety         *)
(* ceiling, the phase loop stops immediately and no later unit of the      *)
(* phase is processed: such a unit is the last one visited.                *)
(***************************************************************************)
C25_RateLimitAbortsPhase ==
    \A i \in run.limited : Len(run.visited) = i

(***************************************************************************)
(* C26 as stated: when an operator interrupt arrives during a phase, the   *)
(* in-flight unit is completed, no further unit is started, the            *)
(* statistics of the units processed so far are emitted and the store      *)
(* handle is released before the process ends.                             *)
(***************************************************************************)
C26_CancellationIsOrderly ==
    (run.interrupted /\ run.pc = "ended")
        => /\ ~run.abandoned
           /\ ~run.started_after_interrupt
           /\ run.emitted
           /\ ~run.client_open

(***************************************************************************)
(* C27 as stated: a full pipeline run or a revalidation-only run of the    *)
(* collector that is not cancelled ends by returning a statistics report   *)
(* to its caller.                                                          *)
(***************************************************************************)
C27_RunReturnsReport ==
    (run.script = "collector" /\ run.pc \in {"menu", "ended"}
        /\ ~run.interrupted)
        => run.report = "stats"

\* the position of a phase in the order discovery, completion, cleanup
PhaseRank(phase) ==
    IF phase = "discovery" THEN 1 ELSE IF phase = "completion" THEN 2 ELSE 3

(***************************************************************************)
(* C28 as stated: within one execution no store mutation of a later phase  *)
(* precedes one of an earlier phase (discovery, then completion, then      *)
(* revalidation and cleanup).                                              *)
(***************************************************************************)
C28_PhasesInOrder ==
    \A i, j \in 1..Len(run.trace) :
        i < j => PhaseRank(run.trace[i]) <= PhaseRank(run.trace[j])

\* the Group record of an artist, by the identity of a Group: its provider
\* id, since the artist has one
HasGroupRecord(gs, artist) ==
    \E g \in 1..Len(gs) : gs[g].spotifyId = artist.id

(***************************************************************************)
(* C29 as stated: when the discovery phase of a full run ends, every       *)
(* artist that discovery returned has a Group record in the store, unless  *)
(* the write of its group failed.                                          *)
(***************************************************************************)
C29_DiscoveryPersistsAccepted ==
    (run.script = "collector" /\ run.pc = "phase1" /\ run.todo = <<>>
        /\ ~run.interrupted)
        => \A i \in 1..Len(run.visited) :
               i \notin run.write_failed => HasGroupRecord(groups, run.visited[i])

(***************************************************************************)
(* The paginated fetches of an artist's albums, one request per step:      *)
(* HybridKpopCollector.search_albums_by_artist_id and                      *)
(* search_albums_by_artist, KpopSpotifyCleaner.get_official_albums and     *)
(* get_search_albums.  fetch.offset is the local offset, fetch.collected   *)
(* is len(all_albums), fetch.requests the number of requests issued; each  *)
(* stops counting at its bound, which then stands for "the bound or more". *)
(* fetch.sent is the offset of the last request and fetch.response the     *)
(* answer to it (history); fetch.parity tells one request from the next,   *)
(* fetch.calls counts the fetches that returned.  Which albums are         *)
(* collected does not steer a loop and is left out.                        *)
(***************************************************************************)
MaxOffset == 1100
MaxCollected == 210
MaxRequests == 4
MaxFetches == 2
FetchSleepCeiling == 60
limit == 50
SearchWindow == 1000
max_results == 200
StalePagesOffset == 100

\* the answer to one request: items is the number of items of the page,
\* valid the number of them that pass the filters of the call site, total
\* the "total" of a search body; status 0 is a raised exception
PageResponse(status, items, valid, total, retry_after) ==
    [status |-> status, items |-> items, valid |-> valid, total |-> total,
     retry_after |-> retry_after]

PageResponses ==
    {PageResponse(200, limit, 5, 2000, 0), PageResponse(200, limit, 0, 2000, 0),
     PageResponse(200, limit, limit, 2000, 0), PageResponse(200, limit, 5, 0, 0),
     PageResponse(200, 7, 5, 2000, 0), PageResponse(200, 0, 0, 2000, 0),
     PageResponse(429, 0, 0, 0, 30), PageResponse(429, 0, 0, 0, 700),
     PageResponse(500, 0, 0, 0, 0), PageResponse(0, 0, 0, 0, 0)}

\* a counter that stops counting at its bound
Counted(n, step, bound) == IF n + step <= bound THEN n + step ELSE bound

\* what a pass of a loop decides: the loop is left (exit) or goes on
Pass(exit, offset, collected) ==
    [exit |-> exit, offset |-> offset, collected |-> collected]

\* the branch of a 200 answer that the loops of search_albums_by_artist_id,
\* search_albums_by_artist and get_official_albums share
PageOf(offset, collected, response) ==
    IF response.items = 0 THEN Pass("complete", offset, collected)
    ELSE IF response.items < limit
    THEN Pass("complete", offset,
              Counted(collected, response.valid, MaxCollected))
    ELSE Pass("none", Counted(offset, limit, MaxOffset),
              Counted(collected, response.valid, MaxCollected))

\* one pass of the while True of search_albums_by_artist_id
\* (lines 466-514): what the loop does after the response
search_albums_by_artist_id_step(offset, collected, response) ==
    IF response.status = 200 THEN PageOf(offset, collected, response)
    ELSE IF response.status = 429
    THEN IF response.retry_after <= FetchSleepCeiling
         THEN Pass("none", offset, collected)
         ELSE Pass("rate_limited", offset, collected)
    ELSE IF response.status = 0 THEN Pass("exception", offset, collected)
    ELSE Pass("error", offset, collected)

\* one pass of the while True of get_official_albums (lines 297-331): every
\* status other than 200 ends the loop
get_official_albums_step(offset, collected, response) ==
    IF response.status = 200 THEN PageOf(offset, collected, response)
    ELSE IF response.status = 0 THEN Pass("exception", offset, collected)
    ELSE Pass("error", offset, collected)

\* the body of the loop of search_albums_by_artist (lines 106-145)
search_albums_by_artist_step(offset, collected, response) ==
    IF response.status = 200 THEN PageOf(offset, collected, response)
    ELSE IF response.status = 0 THEN Pass("exception", offset, collected)
    ELSE Pass("error", offset, collected)

\* the body of the loop of get_search_albums (lines 351-401)
get_search_albums_step(offset, collected, response) ==
    LET all_albums == Counted(collected, response.valid, MaxCollected)
    IN  IF response.status = 200
        THEN IF response.items = 0 THEN Pass("complete", offset, collected)
             ELSE IF response.valid = 0 /\ offset > StalePagesOffset
             THEN Pass("stale", offset, all_albums)
             ELSE IF offset + limit >= response.total \/ response.items < limit
             THEN Pass("complete", offset, all_albums)
             ELSE Pass("none", Counted(offset, limit, MaxOffset), all_albums)
        ELSE IF response.status = 0 THEN Pass("exception", offset, collected)
        ELSE Pass("error", offset, collected)

\* the test of the while statement before a request
LoopTest(fn, offset, collected) ==
    IF fn = "search_albums_by_artist" THEN offset < SearchWindow
    ELSE IF fn = "get_search_albums" THEN collected < max_results
    ELSE TRUE

FetchFunctions ==
    {"search_albums_by_artist_id", "search_albums_by_artist",
     "get_official_albums", "get_search_albums"}

\* a fetch is called and reaches its loop with offset 0
FetchStart ==
    \E fn \in FetchFunctions :
        /\ fetch.pc = "idle"
        /\ fetch' = [NoFetch EXCEPT !.pc = "loop", !.fn = fn,
                                    !.calls = fetch.calls]
        /\ UNCHANGED <<tokenVars, run, classify>>
        /\ UNCHANGED storeVars
        /\ UNCHANGED valVars
        /\ UNCHANGED mergeVars
        /\ UNCHANGED simVars

\* the while test holds: the loop issues a request and acts on the
\* provider's answer
FetchRequest ==
    \E response \in PageResponses :
        /\ fetch.pc = "loop"
        /\ LoopTest(fetch.fn, fetch.offset, fetch.collected)
        /\ \E r \in {IF fetch.fn = "search_albums_by_artist_id"
                     THEN search_albums_by_artist_id_step(
                              fetch.offset, fetch.collected, response)
                     ELSE IF fetch.fn = "get_official_albums"
                     THEN get_official_albums_step(
                              fetch.offset, fetch.collected, response)
                     ELSE IF fetch.fn = "search_albums_by_artist"
                     THEN search_albums_by_artist_step(
                              fetch.offset, fetch.collected, response)
                     ELSE get_search_albums_step(
                              fetch.offset, fetch.collected, response)} :
            fetch' = [fetch EXCEPT
                         !.pc = IF r.exit = "none" THEN "loop" ELSE "returned",
                         !.sent = fetch.offset,
                         !.response = response,
                         !.offset = r.offset,
                         !.collected = r.collected,
                         !.requests = Counted(@, 1, MaxRequests),
                         !.parity = 1 - @,
                         !.exit = r.exit]
        /\ UNCHANGED <<tokenVars, run, classify>>
        /\ UNCHANGED storeVars
        /\ UNCHANGED valVars
        /\ UNCHANGED mergeVars
        /\ UNCHANGED simVars

\* the while test fails: the loop is left without a request
FetchExhausted ==
    /\ fetch.pc = "loop"
    /\ ~LoopTest(fetch.fn, fetch.offset, fetch.collected)
    /\ fetch' = [fetch EXCEPT !.pc = "returned", !.exit = "exhausted"]
    /\ UNCHANGED <<tokenVars, run, classify>>
    /\ UNCHANGED storeVars
    /\ UNCHANGED valVars
    /\ UNCHANGED mergeVars
    /\ UNCHANGED simVars

\* the caller has the result and goes on to the fetch of its next group
FetchAgain ==
    /\ fetch.pc = "returned"
    /\ fetch' = [NoFetch EXCEPT !.calls = Counted(fetch.calls, 1, MaxFetches)]
    /\ UNCHANGED <<tokenVars, run, classify>>
    /\ UNCHANGED storeVars
    /\ UNCHANGED valVars
    /\ UNCHANGED mergeVars
    /\ UNCHANGED simVars

InitFetch ==
    StoreInit /\ ValIdle /\ MergeIdle /\ SimIdle /\ TokenIdle /\ RunIdle
        /\ FetchIdle /\ ClassifyIdle

NextFetch ==
    \/ FetchStart
    \/ FetchRequest
    \/ FetchExhausted
    \/ FetchAgain

\* a loop that can take its next step does take it
SpecFetch ==
    InitFetch /\ [][NextFetch]_vars /\ WF_vars(FetchRequest \/ FetchExhausted)

(***************************************************************************)
(* C30 as stated: every paginated fetch is finite.  Whatever the provider  *)
(* answers, a fetch that has entered its loop issues a bounded number of   *)
(* requests and returns.                                                   *)
(***************************************************************************)
C30_FetchTerminates == (fetch.pc = "loop") ~> (fetch.pc = "returned")

(***************************************************************************)
(* C31 as stated: in every paginated fetch the offset starts at 0,         *)
(* advances by exactly the page size after each full page received with    *)
(* success, the fetch stops after the first page with fewer items than the *)
(* page size, and no request is issued with an offset beyond the           *)
(* provider's searchable window of 1000.                                   *)
(***************************************************************************)
C31_OffsetsWithinWindow ==
    /\ (fetch.pc = "loop" /\ fetch.requests = 0) => fetch.offset = 0
    /\ (fetch.pc \in {"loop", "returned"} /\ fetch.requests > 0)
        => /\ fetch.sent <= SearchWindow
           /\ (fetch.response.status = 200 /\ fetch.response.items < limit)
                  => fetch.pc = "returned"
           /\ (fetch.pc = "loop" /\ fetch.response.status = 200
                   /\ fetch.sent + limit <= MaxOffset)
                  => fetch.offset = fetch.sent + limit

(***************************************************************************)
(* The group classifiers: HybridKpopCollector.is_valid_kpop_spotify_artist *)
(* with looks_like_kpop_name, and                                          *)
(* KpopSpotifyCleaner.is_valid_kpop_artist_candidate.  An artist is a      *)
(* record of its name, its genres (a sequence of strings), its popularity  *)
(* and its followers' total.                                               *)
(***************************************************************************)
Digits == {"0", "1", "2", "3", "4", "5", "6", "7", "8", "9"}
UpperLetters ==
    {"A", "B", "C", "D", "E", "F", "G", "H", "I", "J", "K", "L", "M", "N",
     "O", "P", "Q", "R", "S", "T", "U", "V", "W", "X", "Y", "Z"}

\* \w of the regex engine, for the characters of the names of the model
IsWordChar(c) == c \in Digits \/ Lower(c) \in {Lower(u) : u \in UpperLetters}

\* \b at the gap before position i of s (1 <= i <= Len(s) + 1)
WordBoundary(s, i) ==
    (i > 1 /\ IsWordChar(s[i - 1])) # (i <= Len(s) /\ IsWordChar(s[i]))

\* s holds the literal w from position i on
HoldsAt(s, w, i) == i + Len(w) - 1 <= Len(s) /\ SubSeq(s, i, i + Len(w) - 1) = w

kpop_keywords ==
    {<<"t", "w", "i", "c", "e">>,
     <<"b", "l", "a", "c", "k", "p", "i", "n", "k">>, <<"b", "t", "s">>,
     <<"s", "t", "r", "a", "y">>, <<"a", "t", "e", "e", "z">>,
     <<"i", "t", "z", "y">>, <<"a", "e", "s", "p", "a">>,
     <<"i", "v", "e">>, <<"n", "e", "w", "j", "e", "a", "n", "s">>,
     <<"s", "s", "e", "r", "a", "f", "i", "m">>,
     <<"g", "i", "d", "l", "e">>, <<"n", "m", "i", "x", "x">>,
     <<"k", "e", "p", "1", "e", "r">>,
     <<"s", "e", "v", "e", "n", "t", "e", "e", "n">>, <<"n", "c", "t">>,
     <<"e", "n", "h", "y", "p", "e", "n">>, <<"t", "x", "t">>,
     <<"t", "r", "e", "a", "s", "u", "r", "e">>,
     <<"t", "h", "e", " ", "b", "o", "y", "z">>}

label_keywords ==
    {<<"e", "n", "t", "e", "r", "t", "a", "i", "n", "m", "e", "n", "t">>,
     <<"r", "e", "c", "o", "r", "d", "s">>, <<"m", "u", "s", "i", "c">>,
     <<"l", "a", "b", "e", "l">>, <<"c", "o", "m", "p", "a", "n", "y">>,
     <<"c", "o", "r", "p", "o", "r", "a", "t", "i", "o", "n">>,
     <<"i", "n", "c">>, <<"l", "t", "d">>,
     <<"p", "r", "o", "d", "u", "c", "t", "i", "o", "n">>,
     <<"o", "f", "f", "i", "c", "i", "a", "l">>}

\* the alternatives of the "patterns suspects" regex after ^\d+
suspect_words ==
    {<<"s", "o", "u", "n", "d", "t", "r", "a", "c", "k">>,
     <<"o", "s", "t">>, <<"v", "a", "r", "i", "o", "u", "s">>,
     <<"c", "o", "m", "p", "i", "l", "a", "t", "i", "o", "n">>,
     <<"v", "o", "l", ".">>, <<"p", "t", ".">>, <<"p", "a", "r", "t">>}

suspect_patterns ==
    {<<"v", "a", "r", "i", "o", "u", "s", " ", "a", "r", "t", "i", "s", "t", "s">>,
     <<"c", "o", "m", "p", "i", "l", "a", "t", "i", "o", "n">>,
     <<"o", "s", "t">>,
     <<"s", "o", "u", "n", "d", "t", "r", "a", "c", "k">>,
     <<"k", "a", "r", "a", "o", "k", "e">>}

StrKpop == <<"k", "-", "p", "o", "p">>
StrKorean == <<"k", "o", "r", "e", "a", "n">>
StrGirl == <<"g", "i", "r", "l">>
StrBoy == <<"b", "o", "y">>
KidsTeens == {<<"k", "i", "d">>, <<"k", "i", "d", "s">>,
              <<"t", "e", "e", "n">>, <<"t", "e", "e", "n", "s">>}
kpop_genres ==
    {<<"k", "-", "p", "o", "p">>,
     <<"k", "o", "r", "e", "a", "n", " ", "p", "o", "p">>,
     <<"k", "o", "r", "e", "a", "n">>,
     <<"k", "o", "r", "e", "a", "n", " ", "h", "i", "p", " ", "h", "o", "p">>,
     <<"k", "o", "r", "e", "a", "n", " ", "r", "&", "b">>,
     <<"k", "o", "r", "e", "a", "n", " ", "r", "o", "c", "k">>}

\* re.search(r'\b(girl|boy)\b', s)
SearchGirlBoy(s) ==
    \E i \in 1..Len(s), w \in {StrGirl, StrBoy} :
        HoldsAt(s, w, i) /\ WordBoundary(s, i) /\ WordBoundary(s, i + Len(w))

\* re.search(r'\b\d+(kids?|teens?)\b', s)
SearchDigitsKidsTeens(s) ==
    \E i \in 1..Len(s), j \in 1..Len(s), w \in KidsTeens :
        /\ i < j
        /\ WordBoundary(s, i)
        /\ \A k \in i..(j - 1) : s[k] \in Digits
        /\ HoldsAt(s, w, j)
        /\ WordBoundary(s, j + Len(w))

\* re.search(r'^[A-Z]{2,8}$', s), s holding no newline
SearchUpper2To8(s) ==
    Len(s) \in 2..8 /\ \A i \in 1..Len(s) : s[i] \in UpperLetters

\* re.search(r'[xz]{2,}', s)
SearchXZ(s) ==
    \E i \in 1..(Len(s) - 1) : s[i] \in {"x", "z"} /\ s[i + 1] \in {"x", "z"}

\* looks_like_kpop_name that tests the uppercase pattern on the name itself
looks_like_kpop_name_on_name(name) ==
    LET name_lower == LowerStr(name)
    IN  \/ \E keyword \in kpop_keywords : Contains(name_lower, keyword)
        \/ SearchGirlBoy(name_lower)
        \/ SearchDigitsKidsTeens(name_lower)
        \/ SearchUpper2To8(name)
        \/ SearchXZ(name_lower)

\* HybridKpopCollector.looks_like_kpop_name: every pattern is searched in
\* name_lower
looks_like_kpop_name(name) ==
    LET name_lower == LowerStr(name)
    IN  \/ \E keyword \in kpop_keywords : Contains(name_lower, keyword)
        \/ SearchGirlBoy(name_lower)
        \/ SearchDigitsKidsTeens(name_lower)
        \/ SearchUpper2To8(name_lower)
        \/ SearchXZ(name_lower)

\* has_kpop_genre of is_valid_kpop_spotify_artist (line 242)
HasKpopOrKoreanGenre(genres) ==
    \E g \in 1..Len(genres) :
        \/ Contains(LowerStr(genres[g]), StrKpop)
        \/ Contains(LowerStr(genres[g]), StrKorean)

\* re.search(r'^\d+|soundtrack|ost|various|compilation|vol\.|pt\.|part', s)
SearchSuspect(s) ==
    \/ s # <<>> /\ s[1] \in Digits
    \/ \E w \in suspect_words : Contains(s, w)

\* HybridKpopCollector.is_valid_kpop_spotify_artist
is_valid_kpop_spotify_artist(artist) ==
    LET name == artist.name
        name_lower == LowerStr(name)
        high_popularity_kpop ==
            artist.popularity > 30 /\ looks_like_kpop_name(name)
    IN  /\ HasKpopOrKoreanGenre(artist.genres) \/ high_popularity_kpop
        /\ name # <<>> /\ Len(Strip(name)) >= 2
        /\ artist.popularity >= 5
        /\ ~\E keyword \in label_keywords : Contains(name_lower, keyword)
        /\ ~SearchSuspect(name_lower)

\* KpopSpotifyCleaner.is_valid_kpop_artist_candidate
is_valid_kpop_artist_candidate(artist) ==
    LET name == artist.name
        name_lower == LowerStr(name)
    IN  /\ name # <<>> /\ Len(Strip(name)) >= 1
        /\ artist.popularity >= 10 /\ artist.followers >= 1000
        /\ \E g \in 1..Len(artist.genres), kpop_genre \in kpop_genres :
               Contains(LowerStr(artist.genres[g]), kpop_genre)
        /\ ~\E pattern \in suspect_patterns : Contains(name_lower, pattern)

CandidateNames ==
    {<<"E", "X", "O">>, <<"B", "T", "S">>,
     <<"G", "h", "o", "s", "t", "9">>, <<"A">>, <<>>,
     <<"S", "M", " ", "E", "n", "t", "e", "r", "t", "a", "i", "n", "m", "e", "n", "t">>,
     <<"P", "r", "i", "n", "c", "e">>, <<"2", "N", "E", "1">>,
     <<"G", "i", "r", "l", " ", "D", "a", "y">>, <<"J", "a", "z", "z">>,
     <<"B", "o", "y", "f", "r", "i", "e", "n", "d">>,
     <<"P", "a", "r", "t", " ", "T", "i", "m", "e">>,
     <<"A", " ", "7", "t", "e", "e", "n", "s">>,
     <<"V", "o", "l", ".", " ", "2">>, <<"K", "a", "r", "a">>,
     <<"I", "U", " ">>}

CandidateGenres ==
    {<<>>, <<<<"k", "-", "p", "o", "p">>>>, <<<<"K", "o", "r", "e", "a", "n", " ", "R", "&", "B">>>>, <<<<"p", "o", "p">>>>}

Popularities == {0, 4, 5, 10, 30, 31}
Followers == {999, 1000}

\* the artists the provider's searches return
Candidates ==
    [name : CandidateNames, genres : CandidateGenres,
     popularity : Popularities, followers : Followers]

\* search_kpop_artists_discovery hands an artist to the collector's
\* classifier (line 209)
IsValidKpopSpotifyArtist ==
    \E artist \in {classify.candidate} :
        /\ classify.op = "found"
        /\ classify' = [op |-> "is_valid_kpop_spotify_artist",
                        candidate |-> artist,
                        accepted |-> is_valid_kpop_spotify_artist(artist)]
        /\ UNCHANGED <<tokenVars, run, fetch>>
        /\ UNCHANGED storeVars
        /\ UNCHANGED valVars
        /\ UNCHANGED mergeVars
        /\ UNCHANGED simVars

\* discover_kpop_artists_from_spotify hands an artist to the cleaner's
\* classifier
IsValidKpopArtistCandidate ==
    \E artist \in {classify.candidate} :
        /\ classify.op = "found"
        /\ classify' = [op |-> "is_valid_kpop_artist_candidate",
                        candidate |-> artist,
                        accepted |-> is_valid_kpop_artist_candidate(artist)]
        /\ UNCHANGED <<tokenVars, run, fetch>>
        /\ UNCHANGED storeVars
        /\ UNCHANGED valVars
        /\ UNCHANGED mergeVars
        /\ UNCHANGED simVars

ReleaseNames ==
    {<<"A", "b">>,
     <<>>,
     <<" ", " ">>,
     <<"n", "u", "l", "l">>,
     <<"(", "n", "u", "l", "l", ")", " ">>,
     <<"U", "n", "d", "e", "f", "i", "n", "e", "d">>,
     <<"K", "a", "r", "a", "o", "k", "e", " ", " ", "V", "e", "r", "s", "i", "o", "n">>,
     <<"H", "i", "t", " ", "(", "K", "a", "r", "a", "o", "k", "e", ")">>,
     <<"S", "o", "u", "n", "d", "t", "r", "a", "c", "k", " ", "P", "t", ".", " ", "1">>,
     <<"O", "r", "i", "g", "i", "n", "a", "l", " ", "S", "o", "u", "n", "d", "t", "r", "a", "c", "k", " ", "p", "t", ".", "2">>,
     <<"S", "o", "u", "n", "d", "t", "r", "a", "c", "k">>,
     <<"t", "e", "s", "t">>,
     <<"B", "e", "s", "t", " ", "O", "f", " ", "A", "b">>,
     <<"V", "a", "r", "i", "o", "u", "s", " ", "A", "r", "t", "i", "s", "t", "s">>}

TrackCounts == {0, 1, 3, 4, 8}
AlbumTypes == {"album", "single", "compilation"}
AlbumGroups == {"album", "single", "compilation", "appears_on"}

\* the releases the provider's album listings return
ReleaseCandidates ==
    [name : ReleaseNames, total_tracks : TrackCounts,
     album_type : AlbumTypes, album_group : AlbumGroups]

\* search_albums_by_artist_id hands a listed release to the collector's
\* validator (line 494)
IsValidReleaseSimple ==
    \E release \in {classify.candidate} :
        /\ classify.op = "listed"
        /\ classify' = [op |-> "is_valid_release_simple",
                        candidate |-> release,
                        accepted |-> is_valid_release_simple(release)]
        /\ UNCHANGED <<tokenVars, run, fetch>>
        /\ UNCHANGED storeVars
        /\ UNCHANGED valVars
        /\ UNCHANGED mergeVars
        /\ UNCHANGED simVars

\* get_official_albums and get_search_albums hand a listed release to the
\* cleaner's validator (lines 320 and 379)
IsValidSpotifyRelease ==
    \E release \in {classify.candidate} :
        /\ classify.op = "listed"
        /\ classify' = [op |-> "is_valid_spotify_release",
                        candidate |-> release,
                        accepted |-> is_valid_spotify_release(release)]
        /\ UNCHANGED <<tokenVars, run, fetch>>
        /\ UNCHANGED storeVars
        /\ UNCHANGED valVars
        /\ UNCHANGED mergeVars
        /\ UNCHANGED simVars

\* a search has returned an artist, or a listing a release, that no
\* classifier has yet seen
ClassifyInit ==
    classify \in {[op |-> "found", candidate |-> artist] :
                     artist \in Candidates}
                 \cup {[op |-> "listed", candidate |-> release] :
                          release \in ReleaseCandidates}

InitClassify ==
    StoreInit /\ ValIdle /\ MergeIdle /\ SimIdle /\ TokenIdle /\ RunIdle
        /\ FetchIdle /\ ClassifyInit

NextClassify ==
    \/ IsValidKpopSpotifyArtist
    \/ IsValidKpopArtistCandidate
    \/ IsValidReleaseSimple
    \/ IsValidSpotifyRelease

SpecClassify == InitClassify /\ [][NextClassify]_vars

\* the suspicious patterns the sentence names: leading digits, soundtrack,
\* various, vol., pt., part
StatedSuspect(s) ==
    \/ s # <<>> /\ s[1] \in Digits
    \/ \E w \in {<<"s", "o", "u", "n", "d", "t", "r", "a", "c", "k">>,
                <<"v", "a", "r", "i", "o", "u", "s">>,
                <<"v", "o", "l", ".">>, <<"p", "t", ".">>,
                <<"p", "a", "r", "t">>} : Contains(s, w)

\* the acceptance condition as the sentence states it
StatedGroupAccept(artist) ==
    LET name_lower == LowerStr(artist.name)
    IN  /\ Len(Strip(artist.name)) >= 2
        /\ \/ HasKpopOrKoreanGenre(artist.genres)
           \/ artist.popularity > 30 /\ looks_like_kpop_name_on_name(artist.name)
        /\ artist.popularity >= 5
        /\ ~\E keyword \in label_keywords : Contains(name_lower, keyword)
        /\ ~StatedSuspect(name_lower)

(***************************************************************************)
(* C32 as stated: is_valid_kpop_spotify_artist accepts a candidate if and  *)
(* only if its name has at least 2 characters, it has a domain genre or    *)
(* (popularity > 30 and a name the heuristic matches, names of 2 to 8      *)
(* uppercase letters included), popularity >= 5, no label keyword in the   *)
(* name and none of the suspicious patterns (leading digits, soundtrack,   *)
(* various, vol., pt./part); nothing else rejects.                         *)
(***************************************************************************)
C32_GroupClassifier ==
    classify.op = "is_valid_kpop_spotify_artist"
        => (classify.accepted <=> StatedGroupAccept(classify.candidate))

\* the placeholder and suspect names the sentence lists: null, undefined,
\* karaoke markers, soundtrack-part markers
StatedSuspectRelease(s) ==
    \/ Strip(s) \in {StrNull, StrParenNull, StrUndefined}
    \/ SearchKaraokeVersion(s)
    \/ Contains(s, StrParenKaraoke)
    \/ SearchSoundtrackPt(s, 1)

\* the acceptance condition of a release as the sentence states it
StatedReleaseAccept(release) ==
    /\ release.total_tracks >= 4
    /\ Len(Strip(release.name)) >= 1
    /\ release.album_group \notin {"compilation", "appears_on"}
    /\ ~StatedSuspectRelease(LowerStr(release.name))

(***************************************************************************)
(* C33 as stated: a release candidate is accepted if and only if its track *)
(* count is at least 4, its name is not empty, its grouping is neither     *)
(* compilation nor appears_on and its name matches none of the placeholder *)
(* or suspect strings; both validators whose result decides what is        *)
(* persisted, the collector's and the cleaner's, apply this predicate.     *)
(***************************************************************************)
C33_ReleaseClassifier ==
    classify.op \in {"is_valid_release_simple", "is_valid_spotify_release"}
        => (classify.accepted <=> StatedReleaseAccept(classify.candidate))

\* a release date as a number: missing parts count 0, a missing date is 0
DateRank(release_date) ==
    (IF Len(release_date) >= 1 THEN release_date[1] * 10000 ELSE 0)
    + (IF Len(release_date) >= 2 THEN release_date[2] * 100 ELSE 0)
    + (IF Len(release_date) >= 3 THEN release_date[3] ELSE 0)

FirstIndexOf(list, id) ==
    IF \E i \in 1..Len(list) : list[i].id = id
    THEN CHOOSE i \in 1..Len(list) :
             /\ list[i].id = id
             /\ \A j \in 1..Len(list) : list[j].id = id => i <= j
    ELSE 0

(***************************************************************************)
(* C35: in the sequence merge_albums returns, records of equal release     *)
(* date keep insertion order: an "official" record precedes every "search" *)
(* record of the same date, and two records of one source and one date are *)
(* in the order in which their ids first occur in that source's list.      *)
(***************************************************************************)
C35_TiesKeepInsertionOrder ==
    mpc = "merged" =>
        \A k, l \in 1..Len(merged) :
            (k < l /\ merged[k].release_date = merged[l].release_date)
            => /\ ~(/\ merged[k].discovery_method = "search"
                    /\ merged[l].discovery_method = "official")
               /\ (/\ merged[k].discovery_method = "official"
                   /\ merged[l].discovery_method = "official")
                  => FirstIndexOf(officialValid, merged[k].id)
                         < FirstIndexOf(officialValid, merged[l].id)
               /\ (/\ merged[k].discovery_method = "search"
                   /\ merged[l].discovery_method = "search")
                  => FirstIndexOf(searchValid, merged[k].id)
                         < FirstIndexOf(searchValid, merged[l].id)

\* an official record and a search record of one date were returned
C35_Witness ==
    /\ mpc = "merged"
    /\ \E k, l \in 1..Len(merged) :
        /\ k < l
        /\ merged[k].release_date = merged[l].release_date
        /\ merged[k].discovery_method = "official"
        /\ merged[l].discovery_method = "search"

(***************************************************************************)
(* C36 as stated: clean_albums_for_group on a validated group replaces the *)
(* group's stored releases by the harvest of the pass, none of the         *)
(* previous records remaining, and when the harvest is empty the releases  *)
(* stored before the call are still stored after it.                       *)
(***************************************************************************)
C36_RefreshReplacesOrKeeps ==
    [][CleanAlbumsForGroup /\ last'.step = "cleaned"
          => LET before == ReleasesOf(albums, last'.group)
                 after == ReleasesOf(albums', last'.group)
             IN  /\ nextAlbumId' > nextAlbumId
                        => /\ Len(after) = nextAlbumId' - nextAlbumId
                           /\ \A k \in 1..Len(after) :
                                  after[k]._id >= nextAlbumId
                 /\ nextAlbumId' = nextAlbumId => after = before]_vars

(***************************************************************************)
(* SpecMark: KpopSpotifyCleaner.mark_group_as_invalid on the groups of a   *)
(* store that holds releases, one call per step.                           *)
(***************************************************************************)
\* the reason texts of lines 462 and 470, and texts that name a rate limit
MarkReasons ==
    {ReasonNoSpotifyId, ReasonNotKpop,
     <<"H", "T", "T", "P", " ", "4", "2", "9">>,
     StrRateLimiting,
     <<"R", "A", "T", "E", " ", "e", "x", "c", "e", "e", "d", "e", "d">>,
     <<"G", "e", "n", "e", "r", "i", "c", " ", "e", "r", "r", "o", "r">>}

\* a store of two groups, the first of which owns a release
MarkStores ==
    {<<StoredGroup(1, NameAb, "s1", is_active, FALSE, NoTime),
       StoredGroup(2, <<"C">>, "s2", TRUE, FALSE, NoTime)>> :
        is_active \in BOOLEAN}

MarkInit ==
    /\ groups \in MarkStores
    /\ albums = <<[cleaner_create_album_document(
                       Tagged(RelA, "official"), groups[1], 0)
                     EXCEPT !._id = 1]>>
    /\ now = 0
    /\ nextGroupId = 3
    /\ nextAlbumId = 2
    /\ last = NoOp

\* a call mark_group_as_invalid(group_id, group_name, reason)
MarkGroupAsInvalid ==
    \E g \in 1..Len(groups), reason \in MarkReasons :
        /\ groups' = mark_group_as_invalid(groups, groups[g]._id, reason, now)
        /\ last' = [op |-> "mark", group |-> groups[g]._id, reason |-> reason,
                    at |-> now]
        /\ UNCHANGED <<albums, now, nextGroupId, nextAlbumId>>
        /\ UNCHANGED valVars
        /\ UNCHANGED mergeVars
        /\ UNCHANGED simVars
        /\ UNCHANGED procVars

InitMark == MarkInit /\ ValIdle /\ MergeIdle /\ SimIdle /\ ProcIdle

NextMark == Tick \/ MarkGroupAsInvalid

SpecMark == InitMark /\ [][NextMark]_vars

\* the reason mentions '429', or 'rate' in any case
MentionsRateLimit(reason) ==
    Contains(reason, Str429) \/ Contains(LowerStr(reason), StrRate)

(***************************************************************************)
(* C37: a call of mark_group_as_invalid has one of two outcomes, chosen by *)
(* its reason: when the reason mentions '429' or 'rate' (in any case) the  *)
(* group is active and rateLimited after the call, with retryAfter the     *)
(* time of the call plus 86400 seconds; otherwise it is inactive and       *)
(* carries the reason.  Either way the group's record is kept, the other   *)
(* records are as they were and no release is deleted or modified.         *)
(***************************************************************************)
C37_MarkHasTwoOutcomes ==
    [][last'.op = "mark" /\ MarkGroupAsInvalid
          => /\ albums' = albums
             /\ Len(groups') = Len(groups)
             /\ \A i \in 1..Len(groups) :
                 /\ groups'[i]._id = groups[i]._id
                 /\ groups[i]._id # last'.group => groups'[i] = groups[i]
                 /\ groups[i]._id = last'.group
                        => IF MentionsRateLimit(last'.reason)
                           THEN /\ groups'[i].isActive
                                /\ groups'[i].rateLimited
                                /\ groups'[i].retryAfter = now + 86400
                           ELSE /\ ~groups'[i].isActive
                                /\ groups'[i].invalidReason = last'.reason]_vars

\* the owner of a release was marked at time 1 with a reason that writes
\* 'rate' in capitals, and is quarantined
C37_Witness ==
    /\ last.op = "mark"
    /\ last.at = 1
    /\ MentionsRateLimit(last.reason)
    /\ ~Contains(last.reason, StrRateLimiting)
    /\ ~Contains(last.reason, Str429)
    /\ \E i \in 1..Len(groups) :
        /\ groups[i]._id = last.group
        /\ groups[i].rateLimited
        /\ groups[i].retryAfter = 1 + 86400
        /\ \E k \in 1..Len(albums) : albums[k].artistId = groups[i]._id

(***************************************************************************)
(* C38: a clean_albums_for_group call that cannot validate its group (no   *)
(* 22-character id in spotifyId or in the Spotify URL, or                  *)
(* validate_kpop_artist_by_id returned False) returns before any release   *)
(* operation: the stored releases, the group's spotifyId and its           *)
(* lastValidated are as before the call and no album listing was asked of  *)
(* the provider.  In every step: the step is not such a call, or it left   *)
(* all of these alone.                                                     *)
(***************************************************************************)
C38_UnvalidatedTouchesNoRelease ==
    [][\/ ~(last'.op = "clean"
               /\ last'.step \in {"no_spotify_id", "not_validated"})
       \/ /\ albums' = albums
          /\ nextAlbumId' = nextAlbumId
          /\ last'.album_requests = 0
          /\ Len(groups') = Len(groups)
          /\ \A i \in 1..Len(groups) :
              groups[i]._id = last'.group
              => /\ groups'[i].spotifyId = groups[i].spotifyId
                 /\ groups'[i].lastValidated = groups[i].lastValidated
       \/ ~CleanAlbumsForGroup]_vars

\* a group that an earlier pass validated, and that owns a release, has
\* failed validation
C38_Witness ==
    /\ last.op = "clean"
    /\ last.step = "not_validated"
    /\ \E i \in 1..Len(groups) :
        /\ groups[i]._id = last.group
        /\ groups[i].lastValidated # NoTime
        /\ ~groups[i].isActive
        /\ \E k \in 1..Len(albums) : albums[k].artistId = groups[i]._id

(***************************************************************************)
(* C39: in phase 1, when the group document of an artist could not be      *)
(* built or saved, process_artist_complete neither searches nor persists   *)
(* releases: it returns group_action 'failed' with every album counter 0,  *)
(* and both collections are as they were before the call.                  *)
(***************************************************************************)
C39_NoReleaseWithoutGroup ==
    [][(/\ run.pc = "phase1" /\ run'.pc = "phase1"
        /\ Len(run'.visited) = Len(run.visited) + 1
        /\ (Len(run.visited) + 1) \in run'.write_failed)
          => /\ run'.stats = Stats("failed", 0, 0, 0, 0)
             /\ albums' = albums
             /\ nextAlbumId' = nextAlbumId
             /\ groups' = groups]_vars

\* the second artist of phase 1 could not be saved, after the first one's
\* releases were persisted
C39_Witness ==
    /\ run.pc = "phase1"
    /\ Len(run.visited) = 2
    /\ 2 \in run.write_failed
    /\ 1 \notin run.write_failed
    /\ run.stats.group_action = "failed"
    /\ albums # <<>>

=============================================================================
